---------------------------- MODULE Spec2Model ----------------------------
(***************************************************************************)
(* LedgerSG ledger integrity engine: tenant context middleware, payment    *)
(* allocation, bank reconciliation and bank accounts.                      *)
(*                                                                         *)
(* Money is an integer count of 0.0001 units (MONEY_PLACES, 4 decimals).   *)
(* Identifiers are small integers; 0 stands for NULL in a foreign key.     *)
(***************************************************************************)
EXTENDS Integers, Sequences, FiniteSets, TLC

VARIABLES
    members,      \* core.user_organisation rows with accepted_at set: <<user, org>>
    cache,        \* django cache: "user_org:{user}:{org}" -> "miss" | "yes" | "no"
    ctx,          \* the worker's contextvars: [org, user]
    req,          \* what the last request handled by the worker did and saw
    bank_account, \* banking.bank_account: id -> row
    bank_transaction, \* banking.bank_transaction: id -> row
    payment,      \* banking.payment: id -> row
    document,     \* invoicing.document: id -> row
    payment_allocation, \* banking.payment_allocation: id -> row
    audit,        \* audit.event_log rows appended so far, oldest first
    last,         \* the last service call: [op, result]
    calls,        \* allocate requests in progress: request -> what it has done
    calc          \* the last call of the money kernel: [op, args, result]

tenantVars == <<members, cache, ctx, req>>

bankVars == <<bank_account, bank_transaction, payment, document, payment_allocation,
             audit, last, calls>>

moneyVars == <<calc>>

vars == <<members, cache, ctx, req, bank_account, bank_transaction, payment, document,
         payment_allocation, audit, last, calls, calc>>

None == "None"

(***************************************************************************)
(* Tenant Isolation Context  (common/middleware/tenant_context.py)         *)
(***************************************************************************)

Orgs == {"T1", "T2"}

\* request.user: an ordinary user, a superadmin, or the anonymous user
Users == {"alice", "root"}
Anonymous == "anon"
SuperAdmins == {"root"}

is_authenticated(user) == user /= Anonymous

\* Request paths, as their segments. "health" and "auth" are skip prefixes,
\* "x" is a first segment that is no UUID, <<"api","v1">> has no first segment.
Paths ==
    { <<"health">>,
      <<"api", "v1">>,
      <<"api", "v1", "health">>,
      <<"api", "v1", "x", "bank-accounts">> }
    \cup { <<"api", "v1", o, "bank-accounts">> : o \in Orgs }

\* What may raise while the middleware runs
Faults == {"cache", "db", "bind_org", "bind_user"}

StartsWith(path, prefix) ==
    /\ Len(path) >= Len(prefix)
    /\ \A i \in 1..Len(prefix) : path[i] = prefix[i]

_is_org_scoped(path) ==
    IF ~StartsWith(path, <<"api", "v1">>)
    THEN FALSE
    ELSE IF \/ StartsWith(path, <<"api", "v1", "health">>)
            \/ StartsWith(path, <<"api", "v1", "auth">>)
            \/ StartsWith(path, <<"api", "v1", "organisations">>)
         THEN FALSE
         ELSE TRUE

\* uuid.UUID(org_id_str): a value for a well-formed id, ValueError otherwise
ParseUUID(s) == IF s \in Orgs THEN s ELSE None

_extract_org_id(path) ==
    LET parts == SubSeq(path, 3, Len(path))
    IN  IF parts = <<>> THEN None ELSE ParseUUID(parts[1])

\* The result of _verify_org_membership: [raised, granted, cache]
\* cache.get raising is not caught here; the lookup raising is (fail secure).
VerifyFailSecure(c, mem, user, org, faults) ==
    IF user \in SuperAdmins
    THEN [raised |-> FALSE, granted |-> TRUE, cache |-> c]
    ELSE IF "cache" \in faults
    THEN [raised |-> TRUE, granted |-> FALSE, cache |-> c]
    ELSE IF c[<<user, org>>] /= "miss"
    THEN [raised |-> FALSE, granted |-> (c[<<user, org>>] = "yes"), cache |-> c]
    ELSE IF "db" \in faults
    THEN [raised |-> FALSE, granted |-> FALSE, cache |-> c]
    ELSE LET is_member == <<user, org>> \in mem
         IN  [raised |-> FALSE, granted |-> is_member,
              cache |-> [c EXCEPT ![<<user, org>>] = IF is_member THEN "yes" ELSE "no"]]

\* The same with the lookup's except branch granting access
VerifyFailOpen(c, mem, user, org, faults) ==
    IF "db" \in faults /\ user \notin SuperAdmins /\ "cache" \notin faults
       /\ c[<<user, org>>] = "miss"
    THEN [raised |-> FALSE, granted |-> TRUE, cache |-> c]
    ELSE VerifyFailSecure(c, mem, user, org, faults)

_verify_org_membership(c, mem, user, org, faults) ==
    VerifyFailSecure(c, mem, user, org, faults)

(***************************************************************************)
(* The database connection of the request.  depth is the nesting of        *)
(* transaction.atomic blocks, txn numbers the transactions the request has *)
(* opened so far (an autocommit statement is a transaction of its own),    *)
(* and local is the value SET LOCAL gave the session variable, which lasts *)
(* to the end of the transaction it was issued in.                         *)
(***************************************************************************)
NewConnection == [depth |-> 0, txn |-> 0, local |-> None]

\* cursor.execute("SET LOCAL app.current_org_id = %s"): returns the connection
\* and the number of the transaction the statement ran in
SetLocal(conn, value) ==
    IF conn.depth = 0
    THEN [conn |-> [conn EXCEPT !.txn = conn.txn + 1, !.local = None],
          txn |-> conn.txn + 1]
    ELSE [conn |-> [conn EXCEPT !.local = value], txn |-> conn.txn]

\* @transaction.atomic() on entry: BEGIN when no transaction is open
AtomicEnter(conn) ==
    IF conn.depth = 0
    THEN [conn EXCEPT !.depth = 1, !.txn = conn.txn + 1, !.local = None]
    ELSE [conn EXCEPT !.depth = conn.depth + 1]

\* The downstream handler: reads the context, runs one tenant-scoped service
\* operation under @transaction.atomic(), saves a TenantModel without org_id.
Handler(conn, c) ==
    LET inside == AtomicEnter(conn)
    IN  [seen_org   |-> c.org,               \* get_current_org_id()
         seen_user  |-> c.user,              \* get_current_user_id()
         saved_org  |-> c.org,               \* TenantModel.save: org_id from context
         op_txn     |-> inside.txn,
         op_local   |-> inside.local]

NoHandler ==
    [seen_org |-> None, seen_user |-> None, saved_org |-> None,
     op_txn |-> 0, op_local |-> None]

Response(path, user, faults, member, status, ran, bound, bind_txn, h) ==
    [path |-> path, user |-> user, faults |-> faults, member |-> member,
     status |-> status, handler_ran |-> ran, bound |-> bound,
     bind_txn |-> bind_txn, seen_org |-> h.seen_org, seen_user |-> h.seen_user,
     saved_org |-> h.saved_org, op_txn |-> h.op_txn, op_local |-> h.op_local]

\* TenantContextMiddleware.__call__, downstream handler included
TenantContextMiddleware(user, path, faults) ==
    LET conn0  == NewConnection
        org_id == _extract_org_id(path)
        member == <<user, org_id>> \in members
        pass   == Response(path, user, faults, member, "200", TRUE, FALSE, 0,
                           Handler(conn0, ctx))
    IN
    IF ~_is_org_scoped(path) \/ ~is_authenticated(user) \/ org_id = None
    THEN /\ req' = pass
         /\ UNCHANGED <<cache, ctx>>
    ELSE
      LET v == _verify_org_membership(cache, members, user, org_id, faults)
      IN
      IF v.raised
      THEN /\ req' = Response(path, user, faults, member, "500", FALSE, FALSE, 0, NoHandler)
           /\ UNCHANGED <<cache, ctx>>
      ELSE IF ~v.granted
      THEN /\ req' = Response(path, user, faults, member, "403", FALSE, FALSE, 0, NoHandler)
           /\ cache' = v.cache
           /\ UNCHANGED ctx
      ELSE IF "bind_org" \in faults \/ "bind_user" \in faults
      THEN /\ req' = Response(path, user, faults, member, "500", FALSE, FALSE, 0, NoHandler)
           /\ cache' = v.cache
           /\ UNCHANGED ctx
      ELSE
        LET b1   == SetLocal(conn0, org_id)
            b2   == SetLocal(b1.conn, user)
            ctx1 == [org |-> org_id, user |-> user]
        IN  /\ ctx' = ctx1
            /\ cache' = v.cache
            /\ req' = Response(path, user, faults, member, "200", TRUE, TRUE, b1.txn,
                               Handler(b2.conn, ctx1))

Request ==
    \E user \in Users \cup {Anonymous}, path \in Paths, faults \in SUBSET Faults :
        /\ Cardinality(faults) <= 1
        /\ TenantContextMiddleware(user, path, faults)
        /\ UNCHANGED members
        /\ UNCHANGED <<bankVars, moneyVars>>

\* UserOrganisation.accept(): an invitation is accepted
Accept ==
    \E u \in Users \ SuperAdmins, o \in Orgs :
        /\ <<u, o>> \notin members
        /\ members' = members \cup {<<u, o>>}
        /\ UNCHANGED <<cache, ctx, req>>
        /\ UNCHANGED <<bankVars, moneyVars>>

\* cache.set(cache_key, is_member, 300): the entry expires after 300 seconds
CacheExpire ==
    \E u \in Users, o \in Orgs :
        /\ cache[<<u, o>>] /= "miss"
        /\ cache' = [cache EXCEPT ![<<u, o>>] = "miss"]
        /\ UNCHANGED <<members, ctx, req>>
        /\ UNCHANGED <<bankVars, moneyVars>>

(***************************************************************************)
(* Ledger store.  A table is a function from the ids of its rows to the    *)
(* rows; db is the record of the tables a service call works on.           *)
(***************************************************************************)

MONEY_SCALE == 10000

\* Decimal(str) of a two-decimal literal, in MONEY_PLACES units
Dollars(whole, cents) == whole * MONEY_SCALE + cents * (MONEY_SCALE \div 100)

Abs(x) == IF x < 0 THEN -x ELSE x

(***************************************************************************)
(* Money kernel  (common/decimal_utils.py)                                 *)
(*                                                                         *)
(* A Decimal is [digits, exp]: digits * 10^-exp.  The inputs of the kernel *)
(* are ints, Decimals and strs; a result is [error, value], value a count  *)
(* of MONEY_PLACES units.                                                  *)
(***************************************************************************)

RECURSIVE Pow10(_)
Pow10(n) == IF n = 0 THEN 1 ELSE 10 * Pow10(n - 1)

\* q + r/d (0 <= r < d) to the nearest integer, a tie going up
HalfUp(q, r, d) == IF 2 * r >= d THEN q + 1 ELSE q

\* q + r/d (0 <= r < d) to the nearest integer, a tie going to the even one
HalfEven(q, r, d) == IF 2 * r > d \/ (2 * r = d /\ q % 2 = 1) THEN q + 1 ELSE q

Sign(x) == IF x < 0 THEN -1 ELSE 1

\* the integer nearest to n/d (d > 0), a tie going away from zero
ROUND_HALF_UP(n, d) == Sign(n) * HalfUp(Abs(n) \div d, Abs(n) % d, d)

\* quantize() outside money()'s localcontext: the rounding of the default
\* decimal context, ROUND_HALF_EVEN
DefaultRounding(q, r, d) == HalfEven(q, r, d)

\* digits * 10^-exp quantized to MONEY_PLACES under ROUND_HALF_UP
QuantizeHalfUp(digits, exp) ==
    IF exp <= 4
    THEN digits * Pow10(4 - exp)
    ELSE ROUND_HALF_UP(digits, Pow10(exp - 4))

IntInput(n) == [kind |-> "int", value |-> n]

DecimalInput(digits, exp) == [kind |-> "Decimal", digits |-> digits, exp |-> exp]

StrInput(text) == [kind |-> "str", text |-> text]

\* Decimal(str(value)): [valid, digits, exp], valid false for InvalidOperation
ToDecimal(value) ==
    CASE value.kind = "int" -> [valid |-> TRUE, digits |-> value.value, exp |-> 0]
      [] value.kind = "Decimal" ->
            [valid |-> TRUE, digits |-> value.digits, exp |-> value.exp]
      [] value.kind = "str" /\ value.text = "0.5" ->
            [valid |-> TRUE, digits |-> 5, exp |-> 1]
      [] value.kind = "str" /\ value.text = "0.00025" ->
            [valid |-> TRUE, digits |-> 25, exp |-> 5]
      [] value.kind = "str" /\ value.text = "-0.0001" ->
            [valid |-> TRUE, digits |-> -1, exp |-> 4]
      [] value.kind = "str" /\ value.text = "1000.00" ->
            [valid |-> TRUE, digits |-> 100000, exp |-> 2]
      [] value.kind = "str" /\ value.text = "1.350000" ->
            [valid |-> TRUE, digits |-> 1350000, exp |-> 6]
      [] value.kind = "str" /\ value.text = "1.123456" ->
            [valid |-> TRUE, digits |-> 1123456, exp |-> 6]
      [] OTHER -> [valid |-> FALSE, digits |-> 0, exp |-> 0]

MoneyResult(err, val) == [error |-> err, value |-> val]

\* money(value): Decimal(str(value)).quantize(MONEY_PLACES) under ROUND_HALF_UP
money(value) ==
    IF ~ToDecimal(value).valid
    THEN MoneyResult("ValueError", 0)
    ELSE MoneyResult(None, QuantizeHalfUp(ToDecimal(value).digits, ToDecimal(value).exp))

\* sum_money(values): the total of money(value); the closing quantize has
\* nothing to round
RECURSIVE sum_money(_)
sum_money(values) ==
    IF values = <<>>
    THEN MoneyResult(None, 0)
    ELSE IF money(Head(values)).error /= None
    THEN money(Head(values))
    ELSE IF sum_money(Tail(values)).error /= None
    THEN sum_money(Tail(values))
    ELSE MoneyResult(None, money(Head(values)).value + sum_money(Tail(values)).value)

\* (x * y).quantize(MONEY_PLACES), x and y counts of MONEY_PLACES units
QuantizedProduct(x, y) ==
    LET whole == (Abs(x) \div MONEY_SCALE) * Abs(y)
        rest == (Abs(x) % MONEY_SCALE) * Abs(y)
    IN  Sign(x) * Sign(y) * DefaultRounding(whole + rest \div MONEY_SCALE,
                                            rest % MONEY_SCALE, MONEY_SCALE)

\* (x / y).quantize(MONEY_PLACES), y not zero
QuantizedQuotient(x, y) ==
    Sign(x) * Sign(y) * DefaultRounding((Abs(x) * MONEY_SCALE) \div Abs(y),
                                        (Abs(x) * MONEY_SCALE) % Abs(y), Abs(y))

multiply_money(a, b) ==
    IF money(a).error /= None THEN money(a)
    ELSE IF money(b).error /= None THEN money(b)
    ELSE MoneyResult(None, QuantizedProduct(money(a).value, money(b).value))

divide_money(dividend, divisor) ==
    IF money(divisor).error /= None THEN money(divisor)
    ELSE IF money(divisor).value = 0 THEN MoneyResult("ZeroDivisionError", 0)
    ELSE IF money(dividend).error /= None THEN money(dividend)
    ELSE MoneyResult(None, QuantizedQuotient(money(dividend).value, money(divisor).value))

\* Money(self) + other, Money(self) - other, Money(self) * other and
\* Money(self) / other, other given as an int, a Decimal or a str
Money_operator(op, self, other) ==
    IF money(self).error /= None THEN money(self)
    ELSE IF money(other).error /= None THEN money(other)
    ELSE CASE op = "__add__" -> MoneyResult(None, money(self).value + money(other).value)
           [] op = "__sub__" -> MoneyResult(None, money(self).value - money(other).value)
           [] op = "__mul__" ->
                 MoneyResult(None, QuantizedProduct(money(self).value, money(other).value))
           [] op = "__truediv__" ->
                 IF money(other).value = 0
                 THEN MoneyResult("ZeroDivisionError", 0)
                 ELSE MoneyResult(None,
                          QuantizedQuotient(money(self).value, money(other).value))

MaxAccounts == 3
MaxTxns == 2
MaxAudit == 3

AccountIds == 1..MaxAccounts
TxnIds == 1..MaxTxns
PaymentIds == 1..3

Actors == {"alice"}

\* coa.account rows (chart of accounts), by id: the tenant that owns them
GLAccounts == (1 :> [org |-> "T1"]) @@ (2 :> [org |-> "T2"])

DB == [accounts |-> bank_account, txns |-> bank_transaction,
       payments |-> payment, docs |-> document, allocs |-> payment_allocation,
       audit |-> audit]

Insert(table, id, row) == (id :> row) @@ table

\* QuerySet.update(field=value) over the rows ids
UpdateAll(table, ids, field, value) ==
    [id \in DOMAIN table |->
        IF id \in ids THEN [table[id] EXCEPT ![field] = value] ELSE table[id]]

\* the record written without the actor
AuditEventNoActor(org, user, action, entity_table, entity_id) ==
    [org |-> org, user |-> None, action |-> action,
     entity_table |-> entity_table, entity_id |-> entity_id]

\* AuditEventLog.objects.create(...)
AuditEvent(org, user, action, entity_table, entity_id) ==
    [org |-> org, user |-> user, action |-> action,
     entity_table |-> entity_table, entity_id |-> entity_id]

Ret(db, result, value) == [db |-> db, result |-> result, value |-> value]

(***************************************************************************)
(* BankAccountService  (apps/banking/services/bank_account_service.py)     *)
(***************************************************************************)

\* the lookup by id alone, without the tenant
GetUnscoped(table, org, id) == id \in DOMAIN table

\* Model.objects.get(id=id, org_id=org_id)
GetScoped(table, org, id) == id \in DOMAIN table /\ table[id].org = org

BankAccountService_get(db, org, account_id) ==
    IF GetScoped(db.accounts, org, account_id)
    THEN Ret(db, "ok", account_id)
    ELSE Ret(db, "ResourceNotFound", 0)

\* An optional boolean argument is None, "True" or "False"
OptBool == {None, "True", "False"}

Bool(x) == x = "True"

BankAccountService_list(db, org, is_active) ==
    LET hit(a) == a.org = org /\ (is_active = None \/ a.is_active = Bool(is_active))
    IN  Ret(db, "ok", {i \in DOMAIN db.accounts : hit(db.accounts[i])})

\* the defaults of the tenant left as they are
KeepDefaults(accounts, org) == accounts

\* BankAccount.objects.filter(org_id=org_id, is_default=True).update(is_default=False)
ClearDefaults(accounts, org) ==
    LET hit(a) == a.org = org /\ a.is_default
    IN  UpdateAll(accounts, {i \in DOMAIN accounts : hit(accounts[i])},
                  "is_default", FALSE)

BankAccountService_create(db, org, data, user, new_id) ==
    LET same(a) == a.org = org /\ a.account_number = data.account_number
    IN
    IF {i \in DOMAIN db.accounts : same(db.accounts[i])} /= {}
    THEN Ret(db, "DuplicateResource", 0)
    ELSE IF data.gl_account /= 0 /\ ~GetScoped(GLAccounts, org, data.gl_account)
    THEN Ret(db, "ValidationError", 0)
    ELSE
      LET cleared == IF data.is_default THEN ClearDefaults(db.accounts, org)
                     ELSE db.accounts
          row == [org |-> org, account_number |-> data.account_number,
                  gl_account |-> data.gl_account,
                  is_default |-> data.is_default, is_active |-> TRUE]
      IN  Ret([db EXCEPT !.accounts = Insert(cleared, new_id, row),
                         !.audit = Append(db.audit,
                             AuditEvent(org, user, "CREATE", "bank_account", new_id))],
              "ok", new_id)

\* data holds a field of allowed_fields only when it is not None here
BankAccountService_update(db, org, account_id, data, user) ==
    IF BankAccountService_get(db, org, account_id).result /= "ok"
    THEN Ret(db, "ResourceNotFound", 0)
    ELSE
      LET old == db.accounts[account_id]
          cleared == IF Bool(data.is_default) /\ ~old.is_default
                     THEN ClearDefaults(db.accounts, org)
                     ELSE db.accounts
          row == [old EXCEPT
                    !.is_default = IF data.is_default = None THEN old.is_default
                                   ELSE Bool(data.is_default),
                    !.is_active = IF data.is_active = None THEN old.is_active
                                  ELSE Bool(data.is_active)]
      IN  Ret([db EXCEPT !.accounts = [cleared EXCEPT ![account_id] = row],
                         !.audit = Append(db.audit,
                             AuditEvent(org, user, "UPDATE", "bank_account", account_id))],
              "ok", account_id)

BankAccountService_deactivate(db, org, account_id, user) ==
    IF BankAccountService_get(db, org, account_id).result /= "ok"
    THEN Ret(db, "ResourceNotFound", 0)
    ELSE
      LET active(a) == a.org = org /\ a.is_active
          active_count == Cardinality({i \in DOMAIN db.accounts : active(db.accounts[i])})
          old == db.accounts[account_id]
      IN
      IF active_count = 1 /\ old.is_active
      THEN Ret(db, "ValidationError", 0)
      ELSE Ret([db EXCEPT
                  !.accounts = [db.accounts EXCEPT ![account_id] =
                                  [old EXCEPT !.is_active = FALSE, !.is_default = FALSE]],
                  !.audit = Append(db.audit,
                      AuditEvent(org, user, "UPDATE", "bank_account", account_id))],
               "ok", account_id)

BankAccountService_set_default(db, org, account_id, user) ==
    IF BankAccountService_get(db, org, account_id).result /= "ok"
    THEN Ret(db, "ResourceNotFound", 0)
    ELSE IF ~db.accounts[account_id].is_active
    THEN Ret(db, "ValidationError", 0)
    ELSE
      LET cleared == ClearDefaults(db.accounts, org)
      IN  Ret([db EXCEPT
                  !.accounts = [cleared EXCEPT ![account_id] =
                                  [cleared[account_id] EXCEPT !.is_default = TRUE]],
                  !.audit = Append(db.audit,
                      AuditEvent(org, user, "UPDATE", "bank_account", account_id))],
              "ok", account_id)

(***************************************************************************)
(* ReconciliationService                                                   *)
(* (apps/banking/services/reconciliation_service.py)                       *)
(***************************************************************************)

DefaultTolerance == 10000
MatchLimit == 10
ErrorLimit == 20

ReconciliationService_list_transactions(db, org, bank_account_id, is_reconciled) ==
    LET hit(t) ==
            /\ t.org = org
            /\ (bank_account_id = 0 \/ t.bank_account = bank_account_id)
            /\ (is_reconciled = None \/ t.is_reconciled = Bool(is_reconciled))
    IN  Ret(db, "ok", {i \in DOMAIN db.txns : hit(db.txns[i])})

ReconciliationService_get_transaction(db, org, transaction_id) ==
    IF GetScoped(db.txns, org, transaction_id)
    THEN Ret(db, "ok", transaction_id)
    ELSE Ret(db, "ResourceNotFound", 0)

\* datetime.strptime(s, "%Y-%m-%d"), then "%d/%m/%Y": the day of January 2024,
\* or 0 when both raise ValueError
ParseDate(s) ==
    CASE s = "2024-01-15" -> 15
      [] s = "15/01/2024" -> 15
      [] s = "2024-01-16" -> 16
      [] OTHER -> 0

\* money(s.replace(",", "").strip()): [ok, value], ok false for ValueError
ParseAmount(s) ==
    CASE s = "500.00"   -> [ok |-> TRUE, value |-> Dollars(500, 0)]
      [] s = "499.50"   -> [ok |-> TRUE, value |-> Dollars(499, 50)]
      [] s = "900.00"   -> [ok |-> TRUE, value |-> Dollars(900, 0)]
      [] s = "1,000.00" -> [ok |-> TRUE, value |-> Dollars(1000, 0)]
      [] s = "-500.00"  -> [ok |-> TRUE, value |-> -Dollars(500, 0)]
      [] OTHER -> [ok |-> FALSE, value |-> 0]

\* the duplicate test left out
NoExistingTransaction(txns, bank_account_id, date, amount, description) == FALSE

\* BankTransaction.objects.filter(bank_account, transaction_date, amount,
\* description).first() finds a row
ExistingTransaction(txns, bank_account_id, date, amount, description) ==
    \E i \in DOMAIN txns :
        /\ txns[i].bank_account = bank_account_id
        /\ txns[i].transaction_date = date
        /\ txns[i].amount = amount
        /\ txns[i].description = description

\* One pass of the row loop of import_csv.  st is [txns, imported, skipped,
\* errors, ids]: the table so far, the counters, and the ids left for new rows.
ImportRow(st, org, bank_account_id, batch_id, row, row_num) ==
    LET skip(msg) == [st EXCEPT !.skipped = st.skipped + 1,
                                !.errors = Append(st.errors, <<row_num, msg>>)]
    IN
    IF row.transaction_date = ""
    THEN skip("Missing transaction_date")
    ELSE IF row.amount = ""
    THEN skip("Missing amount")
    ELSE IF row.description = ""
    THEN skip("Missing description")
    ELSE IF ParseDate(row.transaction_date) = 0
    THEN skip("Invalid date format")
    ELSE IF ~ParseAmount(row.amount).ok
    THEN skip("Invalid amount")
    ELSE
      LET date == ParseDate(row.transaction_date)
          amount == ParseAmount(row.amount).value
      IN
      IF ExistingTransaction(st.txns, bank_account_id, date, amount, row.description)
      THEN [st EXCEPT !.skipped = st.skipped + 1]
      ELSE
        LET new == [org |-> org, bank_account |-> bank_account_id,
                    transaction_date |-> date, amount |-> amount,
                    description |-> row.description,
                    is_reconciled |-> FALSE, reconciled_at |-> 0,
                    matched_payment |-> 0, import_batch_id |-> batch_id]
        IN  [st EXCEPT !.txns = Insert(st.txns, Head(st.ids), new),
                       !.ids = Tail(st.ids),
                       !.imported = st.imported + 1]

RECURSIVE ImportRows(_, _, _, _, _, _)
ImportRows(st, org, bank_account_id, batch_id, rows, row_num) ==
    IF rows = <<>>
    THEN st
    ELSE ImportRows(ImportRow(st, org, bank_account_id, batch_id, Head(rows), row_num),
                    org, bank_account_id, batch_id, Tail(rows), row_num + 1)

FirstN(seq, n) == IF Len(seq) <= n THEN seq ELSE SubSeq(seq, 1, n)

\* new_ids are the primary keys the new rows get, batch_id is uuid4()
ReconciliationService_import_csv(db, org, bank_account_id, rows, user, batch_id, new_ids) ==
    IF ~GetScoped(db.accounts, org, bank_account_id)
    THEN Ret(db, "DoesNotExist", 0)
    ELSE IF ~db.accounts[bank_account_id].is_active
    THEN Ret(db, "ValidationError", 0)
    ELSE
      LET st == ImportRows([txns |-> db.txns, imported |-> 0, skipped |-> 0,
                            errors |-> <<>>, ids |-> new_ids],
                           org, bank_account_id, batch_id, rows, 2)
      IN  Ret([db EXCEPT !.txns = st.txns,
                         !.audit = Append(db.audit,
                             AuditEvent(org, user, "IMPORT", "bank_transaction", batch_id))],
              "ok",
              [imported |-> st.imported, skipped |-> st.skipped,
               errors |-> FirstN(st.errors, ErrorLimit), batch_id |-> batch_id])

\* the first check of reconcile: is the transaction already reconciled
AlreadyReconciled(t) == t.is_reconciled

\* the check left out
NeverReconciled(t) == FALSE

ReconcileGuard(t) == AlreadyReconciled(t)

ReconciliationService_reconcile(db, org, transaction_id, payment_id, user, now) ==
    IF ReconciliationService_get_transaction(db, org, transaction_id).result /= "ok"
    THEN Ret(db, "ResourceNotFound", 0)
    ELSE IF ReconcileGuard(db.txns[transaction_id])
    THEN Ret(db, "AlreadyReconciled", 0)
    ELSE IF ~GetScoped(db.payments, org, payment_id)
    THEN Ret(db, "ResourceNotFound", 0)
    ELSE
      LET t == db.txns[transaction_id]
          p == db.payments[payment_id]
      IN
      IF p.is_voided
      THEN Ret(db, "PaymentVoided", 0)
      ELSE IF p.bank_account /= t.bank_account
      THEN Ret(db, "BankAccountMismatch", 0)
      ELSE IF Abs(t.amount - p.amount) > DefaultTolerance
      THEN Ret(db, "AmountMismatch", 0)
      ELSE Ret([db EXCEPT
                  !.txns = [db.txns EXCEPT ![transaction_id] =
                              [t EXCEPT !.is_reconciled = TRUE,
                                        !.reconciled_at = now,
                                        !.matched_payment = payment_id]],
                  !.payments = [db.payments EXCEPT ![payment_id] =
                                  [p EXCEPT !.is_reconciled = TRUE]],
                  !.audit = Append(db.audit,
                      AuditEvent(org, user, "RECONCILE", "bank_transaction",
                                 transaction_id))],
               "ok", transaction_id)

\* BankTransactionReconcileSerializer.validate_payment_id: the payment exists in
\* the organisation and is not voided
BankTransactionReconcileSerializer_is_valid(db, org, data) ==
    /\ GetScoped(db.payments, org, data.payment_id)
    /\ ~db.payments[data.payment_id].is_voided

\* POST .../bank-transactions/{id}/reconcile/ : data is the request body; the
\* serializer declares payment_id only, any other key of the body is dropped
BankTransactionReconcileView_post(db, org, transaction_id, data, user, now) ==
    IF ~BankTransactionReconcileSerializer_is_valid(db, org, data)
    THEN Ret(db, "ValidationError", 0)
    ELSE ReconciliationService_reconcile(db, org, transaction_id, data.payment_id,
                                         user, now)

ReconciliationService_unreconcile(db, org, transaction_id, user) ==
    IF ReconciliationService_get_transaction(db, org, transaction_id).result /= "ok"
    THEN Ret(db, "ResourceNotFound", 0)
    ELSE IF ~db.txns[transaction_id].is_reconciled
    THEN Ret(db, "NotReconciled", 0)
    ELSE
      LET t == db.txns[transaction_id]
          old_payment_id == t.matched_payment
          \* Payment.objects.filter(id=old_payment_id).update(is_reconciled=False)
          paid == IF old_payment_id /= 0
                  THEN UpdateAll(db.payments, {old_payment_id} \cap DOMAIN db.payments,
                                 "is_reconciled", FALSE)
                  ELSE db.payments
      IN  Ret([db EXCEPT
                  !.txns = [db.txns EXCEPT ![transaction_id] =
                              [t EXCEPT !.is_reconciled = FALSE,
                                        !.reconciled_at = 0,
                                        !.matched_payment = 0]],
                  !.payments = paid,
                  !.audit = Append(db.audit,
                      AuditEvent(org, user, "DELETE", "bank_transaction",
                                 transaction_id))],
              "ok", transaction_id)

\* the difference rounded to the nearest tenth rather than cut
ScoreRounded(amount_diff) ==
    100 - ((amount_diff * 10 + MONEY_SCALE \div 2) \div MONEY_SCALE)

\* 100 - int(amount_diff * 10), amount_diff >= 0 in MONEY_PLACES units
Score(amount_diff) == 100 - ((amount_diff * 10) \div MONEY_SCALE)

\* list.sort(key=score, reverse=True) of the candidates, taken in id order:
\* a stable sort, so equal scores keep the order of the queryset
RECURSIVE SortByScore(_, _)
SortByScore(ids, score) ==
    IF ids = {}
    THEN <<>>
    ELSE LET best == CHOOSE i \in ids :
                        \A j \in ids : score[i] > score[j] \/ (score[i] = score[j] /\ i <= j)
         IN  <<[payment_id |-> best, score |-> score[best]]>>
                \o SortByScore(ids \ {best}, score)

ReconciliationService_suggest_matches(db, org, transaction_id, tolerance) ==
    IF ReconciliationService_get_transaction(db, org, transaction_id).result /= "ok"
    THEN Ret(db, "ResourceNotFound", <<>>)
    ELSE IF db.txns[transaction_id].is_reconciled
    THEN Ret(db, "ok", <<>>)
    ELSE
      LET t == db.txns[transaction_id]
          candidate(p) == /\ p.org = org
                          /\ p.bank_account = t.bank_account
                          /\ ~p.is_voided
                          /\ ~p.is_reconciled
          near == {i \in {k \in DOMAIN db.payments : candidate(db.payments[k])} :
                      Abs(t.amount - db.payments[i].amount) <= tolerance}
          score == [i \in near |-> Score(Abs(t.amount - db.payments[i].amount))]
      IN  Ret(db, "ok", FirstN(SortByScore(near, score), MatchLimit))

(***************************************************************************)
(* Payment allocation.  The request serializers are                        *)
(* apps/banking/serializers/allocation.py; PaymentService is known by its  *)
(* callers (apps/banking/views.py), its tests                              *)
(* (apps/banking/tests/test_allocation_service.py) and the description of  *)
(* the allocation engine, and is written here from those.                  *)
(***************************************************************************)

MaxAllocations == 3
MaxBatch == 2

AllocationIds == 1..MaxAllocations

\* sum(money(alloc["allocated_amount"]) for alloc in allocations); the amounts
\* of a request are given in MONEY_PLACES units, which money() leaves as they are
RECURSIVE BatchTotal(_)
BatchTotal(allocations) ==
    IF allocations = <<>>
    THEN 0
    ELSE Head(allocations).allocated_amount + BatchTotal(Tail(allocations))

\* sum(alloc.allocated_amount for alloc in rows), rows the ids of allocation rows
RECURSIVE SumAllocated(_, _)
SumAllocated(allocs, rows) ==
    IF rows = {}
    THEN 0
    ELSE LET i == CHOOSE x \in rows : TRUE
         IN  allocs[i].allocated_amount + SumAllocated(allocs, rows \ {i})

\* BulkAllocationSerializer.validate_payment_id
BulkAllocationSerializer_validate_payment_id(db, org, payment_id) ==
    IF ~GetScoped(db.payments, org, payment_id)
    THEN "Payment not found in this organisation."
    ELSE IF db.payments[payment_id].is_voided
    THEN "Cannot allocate a voided payment."
    ELSE "ok"

\* the loop of BulkAllocationSerializer.validate_allocations from entry i on,
\* document_ids the documents of the entries before it
RECURSIVE ValidateEntries(_, _, _)
ValidateEntries(value, i, document_ids) ==
    IF i > Len(value)
    THEN "ok"
    ELSE IF value[i].allocated_amount <= 0
    THEN "Allocated amount must be positive."
    ELSE IF value[i].document_id \in document_ids
    THEN "Duplicate document allocation"
    ELSE ValidateEntries(value, i + 1, document_ids \cup {value[i].document_id})

BulkAllocationSerializer_validate_allocations(value) ==
    IF value = <<>>
    THEN "At least one allocation is required."
    ELSE ValidateEntries(value, 1, {})

\* the document loop of BulkAllocationSerializer.validate from entry i on
RECURSIVE ValidateDocuments(_, _, _, _, _)
ValidateDocuments(db, org, pay, allocations, i) ==
    IF i > Len(allocations)
    THEN "ok"
    ELSE IF ~GetScoped(db.docs, org, allocations[i].document_id)
    THEN "Document not found."
    ELSE IF db.docs[allocations[i].document_id].status /= "APPROVED"
    THEN "Document must be APPROVED."
    ELSE IF db.docs[allocations[i].document_id].contact /= pay.contact
    THEN "Document contact does not match payment contact."
    ELSE ValidateDocuments(db, org, pay, allocations, i + 1)

\* BulkAllocationSerializer.validate: the total of the batch alone is compared
\* with the amount of the payment
BulkAllocationSerializer_validate(db, org, payment_id, allocations) ==
    IF BatchTotal(allocations) > db.payments[payment_id].amount
    THEN "Total allocations exceed payment amount."
    ELSE ValidateDocuments(db, org, db.payments[payment_id], allocations, 1)

\* serializer.is_valid(): the field validators, then validate() when they pass
BulkAllocationSerializer_is_valid(db, org, payment_id, allocations) ==
    IF BulkAllocationSerializer_validate_payment_id(db, org, payment_id) /= "ok"
    THEN BulkAllocationSerializer_validate_payment_id(db, org, payment_id)
    ELSE IF BulkAllocationSerializer_validate_allocations(allocations) /= "ok"
    THEN BulkAllocationSerializer_validate_allocations(allocations)
    ELSE BulkAllocationSerializer_validate(db, org, payment_id, allocations)

\* the rows that allocate the payment
AllocationsOf(allocs, payment_id) ==
    {i \in DOMAIN allocs : allocs[i].payment = payment_id}

\* what the payment has allocated so far
SumOfPayment(allocs, payment_id) == SumAllocated(allocs, AllocationsOf(allocs, payment_id))

\* the sum of the existing rows left out of the check
NothingAllocated(allocs, payment_id) == 0

AlreadyAllocated(allocs, payment_id) == SumOfPayment(allocs, payment_id)

\* the counterparty test left out
AnyCounterparty(d, p) == TRUE

\* the document is of the counterparty of the payment
SameCounterparty(d, p) == d.contact = p.contact

\* The checks of allocate on entry i of the batch, in the order submitted;
\* total is what the payment has allocated plus the entries before i
RECURSIVE CheckEntries(_, _, _, _, _, _)
CheckEntries(db, org, payment_id, allocations, i, total) ==
    IF i > Len(allocations)
    THEN "ok"
    ELSE
      LET a == allocations[i]
          mine(r) == r.payment = payment_id /\ r.document = a.document_id
      IN
      IF a.allocated_amount <= 0
      THEN "InvalidAmount"
      ELSE IF ~GetScoped(db.docs, org, a.document_id)
      THEN "ResourceNotFound"
      ELSE IF db.docs[a.document_id].status /= "APPROVED"
      THEN "DocumentNotApproved"
      ELSE IF {k \in DOMAIN db.allocs : mine(db.allocs[k])} /= {}
      THEN "DuplicateAllocation"
      ELSE IF ~SameCounterparty(db.docs[a.document_id], db.payments[payment_id])
      THEN "CounterpartyMismatch"
      ELSE IF total + a.allocated_amount > db.payments[payment_id].amount
      THEN "AllocationExceedsPayment"
      ELSE CheckEntries(db, org, payment_id, allocations, i + 1,
                        total + a.allocated_amount)

\* the test for a repeated document left out
NoDuplicateInBatch(allocations) == FALSE

\* the batch names a document id twice
DuplicateInBatch(allocations) ==
    \E i, j \in 1..Len(allocations) :
        i < j /\ allocations[i].document_id = allocations[j].document_id

\* the checks of allocate, made on what the database holds when they run
PaymentService_check(db, org, payment_id, allocations) ==
    IF ~GetScoped(db.payments, org, payment_id)
    THEN "ResourceNotFound"
    ELSE IF db.payments[payment_id].is_voided
    THEN "ImmutabilityViolation"
    ELSE IF DuplicateInBatch(allocations)
    THEN "DuplicateAllocation"
    ELSE CheckEntries(db, org, payment_id, allocations, 1,
                      AlreadyAllocated(db.allocs, payment_id))

\* what all the rows allocate to the document
SumOfDocument(allocs, document_id) ==
    SumAllocated(allocs, {i \in DOMAIN allocs : allocs[i].document = document_id})

\* every allocated document taken as part paid
AlwaysPartiallyPaid(d, allocated) == "PARTIALLY_PAID"

\* the status of a document once allocated is what it has received
DocumentStatus(d, allocated) ==
    IF allocated = d.total_incl THEN "PAID"
    ELSE IF allocated < d.total_incl THEN "PARTIALLY_PAID"
    ELSE d.status

\* the rows of the batch from entry i on, given the ids new_ids
RECURSIVE InsertEntries(_, _, _, _, _, _)
InsertEntries(allocs, org, payment_id, allocations, i, new_ids) ==
    IF i > Len(allocations)
    THEN allocs
    ELSE InsertEntries(
            Insert(allocs, new_ids[i],
                   [org |-> org, payment |-> payment_id,
                    document |-> allocations[i].document_id,
                    allocated_amount |-> allocations[i].allocated_amount]),
            org, payment_id, allocations, i + 1, new_ids)

\* the writes of the whole batch
WriteBatch(db, org, payment_id, allocations, user, new_ids) ==
    LET rows == InsertEntries(db.allocs, org, payment_id, allocations, 1, new_ids)
        touched == {allocations[i].document_id : i \in 1..Len(allocations)}
    IN  [db EXCEPT
           !.allocs = rows,
           !.docs = [d \in DOMAIN db.docs |->
                        IF d \in touched
                        THEN [db.docs[d] EXCEPT
                                !.status = DocumentStatus(db.docs[d], SumOfDocument(rows, d))]
                        ELSE db.docs[d]],
           !.audit = Append(db.audit, AuditEvent(org, user, "UPDATE", "payment", payment_id))]

\* the writes of the entries before the one that failed, kept
WritePartial(db, org, payment_id, allocations, user, new_ids) ==
    LET RECURSIVE upto(_)
        upto(n) == IF n = 0 THEN 0
                   ELSE IF PaymentService_check(db, org, payment_id, SubSeq(allocations, 1, n)) = "ok"
                   THEN n ELSE upto(n - 1)
        n == upto(Len(allocations))
    IN  IF n = 0 \/ ~GetScoped(db.payments, org, payment_id)
        THEN db
        ELSE WriteBatch(db, org, payment_id, SubSeq(allocations, 1, n), user, new_ids)

\* a failed batch writes nothing: the unit of work rolls back
Rollback(db, org, payment_id, allocations, user, new_ids) == db

OnFailure(db, org, payment_id, allocations, user, new_ids) ==
    Rollback(db, org, payment_id, allocations, user, new_ids)

PaymentService_allocate(db, org, payment_id, allocations, user, new_ids) ==
    LET checked == PaymentService_check(db, org, payment_id, allocations)
    IN  IF checked /= "ok"
        THEN Ret(OnFailure(db, org, payment_id, allocations, user, new_ids), checked, 0)
        ELSE Ret(WriteBatch(db, org, payment_id, allocations, user, new_ids),
                 "ok", payment_id)

\* the row is deleted; the status of its document stays as it is
PaymentService_unallocate(db, org, allocation_id, user) ==
    IF ~GetScoped(db.allocs, org, allocation_id)
    THEN Ret(db, "ResourceNotFound", 0)
    ELSE Ret([db EXCEPT
                !.allocs = [i \in DOMAIN db.allocs \ {allocation_id} |-> db.allocs[i]],
                !.audit = Append(db.audit,
                    AuditEvent(org, user, "UPDATE", "payment",
                               db.allocs[allocation_id].payment))],
             "ok",
             [payment_id |-> db.allocs[allocation_id].payment,
              document_id |-> db.allocs[allocation_id].document])

\* the payment is marked voided; a voided payment is not voided again
PaymentService_void(db, org, payment_id, reason, user) ==
    IF ~GetScoped(db.payments, org, payment_id)
    THEN Ret(db, "ResourceNotFound", 0)
    ELSE IF db.payments[payment_id].is_voided
    THEN Ret(db, "ImmutabilityViolation", 0)
    ELSE Ret([db EXCEPT
                !.payments = [db.payments EXCEPT ![payment_id].is_voided = TRUE],
                !.audit = Append(db.audit,
                    AuditEvent(org, user, "VOID", "payment", payment_id))],
             "ok", payment_id)

\* PaymentVoidSerializer.validate_reason: value.strip() is not empty
PaymentVoidSerializer_is_valid(reason) == reason \notin {"", " "}

\* PaymentVoidView.post: the serializer, then the service
PaymentVoidView_post(db, org, payment_id, reason, user) ==
    IF ~PaymentVoidSerializer_is_valid(reason)
    THEN Ret(db, "ValidationError", 0)
    ELSE PaymentService_void(db, org, payment_id, reason, user)

\* base_amount of a payment and base_allocated_amount of an allocation: the
\* amount times the exchange rate of the payment, by the money kernel
PaymentService_base_amount(amount, exchange_rate) == multiply_money(amount, exchange_rate)

\* PaymentAllocateView.post: the serializer, then the service
PaymentAllocateView_post(db, org, payment_id, allocations, user, new_ids) ==
    IF BulkAllocationSerializer_is_valid(db, org, payment_id, allocations) /= "ok"
    THEN Ret(db, "ValidationError", 0)
    ELSE PaymentService_allocate(db, org, payment_id, allocations, user, new_ids)

\* core.contact rows, by id: the tenant that owns them and what they are
Contacts ==
    (1 :> [org |-> "T1", is_customer |-> TRUE, is_supplier |-> FALSE])
    @@ (2 :> [org |-> "T1", is_customer |-> TRUE, is_supplier |-> TRUE])
    @@ (3 :> [org |-> "T2", is_customer |-> TRUE, is_supplier |-> TRUE])

\* PaymentAllocationInputSerializer: the amount is at least 0.0001 and the
\* document is one of the organisation and APPROVED
PaymentAllocationInputSerializer_is_valid(db, org, alloc) ==
    /\ alloc.allocated_amount >= 1
    /\ GetScoped(db.docs, org, alloc.document_id)
    /\ db.docs[alloc.document_id].status = "APPROVED"

\* what PaymentReceiveSerializer and PaymentMakeSerializer both validate: the
\* bank account, the amount, every entry of allocations, their total and that
\* no document is named twice
PaymentInputValid(db, org, data) ==
    /\ GetScoped(db.accounts, org, data.bank_account_id)
    /\ db.accounts[data.bank_account_id].is_active
    /\ data.amount >= 1
    /\ \A i \in 1..Len(data.allocations) :
          PaymentAllocationInputSerializer_is_valid(db, org, data.allocations[i])
    /\ BatchTotal(data.allocations) <= data.amount
    /\ ~DuplicateInBatch(data.allocations)

PaymentReceiveSerializer_is_valid(db, org, data) ==
    /\ GetScoped(Contacts, org, data.contact_id)
    /\ Contacts[data.contact_id].is_customer
    /\ PaymentInputValid(db, org, data)

PaymentMakeSerializer_is_valid(db, org, data) ==
    /\ GetScoped(Contacts, org, data.contact_id)
    /\ Contacts[data.contact_id].is_supplier
    /\ PaymentInputValid(db, org, data)

\* PaymentService.create_received / create_made: the payment is stored and an
\* audit record CREATE written, in one unit of work
PaymentService_create(db, org, data, user, new_id) ==
    IF ~(GetScoped(db.accounts, org, data.bank_account_id)
         /\ db.accounts[data.bank_account_id].is_active)
    THEN Ret(db, "BankAccountInactive", 0)
    ELSE Ret([db EXCEPT
                !.payments = Insert(db.payments, new_id,
                    [org |-> org, bank_account |-> data.bank_account_id,
                     amount |-> data.amount, contact |-> data.contact_id,
                     is_voided |-> FALSE, is_reconciled |-> FALSE]),
                !.audit = Append(db.audit,
                    AuditEvent(org, user, "CREATE", "payment", new_id))],
             "ok", new_id)

\* the view's second call: PaymentService.allocate in a unit of work of its
\* own, after that of the first call, created, has been committed
AllocateAfterCreate(created, allocated) ==
    IF allocated.result = "ok" THEN allocated ELSE Ret(created.db, allocated.result, 0)

\* ReceivePaymentView.post and MakePaymentView.post, valid the outcome of the
\* view's serializer: the payment is created, then allocated when the request
\* names allocations
PaymentView_post(db, org, valid, data, user, new_id, new_ids) ==
    IF ~valid
    THEN Ret(db, "ValidationError", 0)
    ELSE
      LET created == PaymentService_create(db, org, data, user, new_id)
      IN  IF created.result /= "ok" \/ data.allocations = <<>>
          THEN created
          ELSE AllocateAfterCreate(created,
                   PaymentService_allocate(created.db, org, new_id, data.allocations,
                                           user, new_ids))

ReceivePaymentView_post(db, org, data, user, new_id, new_ids) ==
    PaymentView_post(db, org, PaymentReceiveSerializer_is_valid(db, org, data),
                     data, user, new_id, new_ids)

MakePaymentView_post(db, org, data, user, new_id, new_ids) ==
    PaymentView_post(db, org, PaymentMakeSerializer_is_valid(db, org, data),
                     data, user, new_id, new_ids)

(***************************************************************************)
(* DocumentService  (apps/invoicing/services/document_service.py)          *)
(***************************************************************************)

DOCUMENT_TYPES == {"INVOICE", "CREDIT_NOTE", "DEBIT_NOTE", "QUOTE"}

\* STATUS_TRANSITIONS.get(status, [])
STATUS_TRANSITIONS(status) ==
    CASE status = "DRAFT"        -> {"SENT", "VOIDED"}
      [] status = "SENT"         -> {"APPROVED", "VOIDED"}
      [] status = "APPROVED"     -> {"PAID_PARTIAL", "PAID", "VOIDED"}
      [] status = "PAID_PARTIAL" -> {"PAID", "VOIDED"}
      [] status = "PAID"         -> {"VOIDED"}
      [] status = "VOIDED"       -> {}
      [] OTHER                   -> {}

DocumentService_get_document(db, org, document_id) ==
    IF GetScoped(db.docs, org, document_id)
    THEN Ret(db, "ok", document_id)
    ELSE Ret(db, "ResourceNotFound", 0)

\* a document without lines: its totals stay 0
DocumentService_create_document(db, org, document_type, contact_id, new_id) ==
    IF document_type \notin DOCUMENT_TYPES
    THEN Ret(db, "ValidationError", 0)
    ELSE IF ~GetScoped(Contacts, org, contact_id)
    THEN Ret(db, "ResourceNotFound", 0)
    ELSE Ret([db EXCEPT !.docs = Insert(db.docs, new_id,
                  [org |-> org, contact |-> contact_id, status |-> "DRAFT",
                   total_incl |-> 0, document_type |-> document_type])],
             "ok", new_id)

DocumentService_transition_status(db, org, document_id, new_status) ==
    IF DocumentService_get_document(db, org, document_id).result /= "ok"
    THEN Ret(db, "ResourceNotFound", 0)
    ELSE IF new_status \notin STATUS_TRANSITIONS(db.docs[document_id].status)
    THEN Ret(db, "ValidationError", 0)
    ELSE Ret([db EXCEPT !.docs = [db.docs EXCEPT ![document_id].status = new_status]],
             "ok", document_id)

DocumentService_convert_quote_to_invoice(db, org, quote_id, new_id) ==
    IF DocumentService_get_document(db, org, quote_id).result /= "ok"
    THEN Ret(db, "ResourceNotFound", 0)
    ELSE IF db.docs[quote_id].document_type /= "QUOTE"
    THEN Ret(db, "ValidationError", 0)
    ELSE IF db.docs[quote_id].status \notin {"DRAFT", "SENT"}
    THEN Ret(db, "ValidationError", 0)
    ELSE
      LET invoice == DocumentService_create_document(db, org, "INVOICE",
                         db.docs[quote_id].contact, new_id)
      IN  IF invoice.result /= "ok"
          THEN Ret(db, invoice.result, 0)
          ELSE Ret([invoice.db EXCEPT
                      !.docs = [invoice.db.docs EXCEPT ![quote_id].status = "CONVERTED"]],
                   "ok", new_id)

(***************************************************************************)
(* Service calls as steps of the system                                    *)
(***************************************************************************)

\* uuid4(): an id no row of the table has; the least one stands for it
FreshIds(table, all, n) ==
    LET free == all \ DOMAIN table
        RECURSIVE take(_, _)
        take(S, k) == IF k = 0 \/ S = {} THEN <<>>
                      ELSE LET m == CHOOSE x \in S : \A y \in S : x <= y
                           IN  <<m>> \o take(S \ {m}, k - 1)
    IN  take(free, n)

Commit(r, op, org) ==
    /\ bank_account' = r.db.accounts
    /\ bank_transaction' = r.db.txns
    /\ payment' = r.db.payments
    /\ document' = r.db.docs
    /\ payment_allocation' = r.db.allocs
    /\ audit' = r.db.audit
    /\ last' = [op |-> op, result |-> r.result]

CanAudit == Len(audit) < MaxAudit

AccountNumbers == {"001", "002"}

CreateData == [account_number : AccountNumbers, gl_account : {0, 1}, is_default : BOOLEAN]

UpdateData == [is_default : OptBool, is_active : OptBool]

BankAccountCreate ==
    \E org \in Orgs, data \in CreateData, user \in Actors :
        /\ CanAudit
        /\ DOMAIN bank_account /= AccountIds
        /\ Commit(BankAccountService_create(DB, org, data, user,
                      FreshIds(bank_account, AccountIds, 1)[1]), "create", org)
        /\ UNCHANGED <<tenantVars, calls, moneyVars>>

BankAccountGet ==
    \E org \in Orgs, id \in AccountIds :
        /\ Commit(BankAccountService_get(DB, org, id), "get", org)
        /\ UNCHANGED <<tenantVars, calls, moneyVars>>

BankAccountList ==
    \E org \in Orgs, is_active \in OptBool :
        /\ Commit(BankAccountService_list(DB, org, is_active), "list", org)
        /\ UNCHANGED <<tenantVars, calls, moneyVars>>

BankAccountUpdate ==
    \E org \in Orgs, id \in AccountIds, data \in UpdateData, user \in Actors :
        /\ CanAudit
        /\ Commit(BankAccountService_update(DB, org, id, data, user), "update", org)
        /\ UNCHANGED <<tenantVars, calls, moneyVars>>

BankAccountDeactivate ==
    \E org \in Orgs, id \in AccountIds, user \in Actors :
        /\ CanAudit
        /\ Commit(BankAccountService_deactivate(DB, org, id, user), "deactivate", org)
        /\ UNCHANGED <<tenantVars, calls, moneyVars>>

BankAccountSetDefault ==
    \E org \in Orgs, id \in AccountIds, user \in Actors :
        /\ CanAudit
        /\ Commit(BankAccountService_set_default(DB, org, id, user), "set_default", org)
        /\ UNCHANGED <<tenantVars, calls, moneyVars>>

\* The rows of the statements that are imported
CsvRows ==
    { [transaction_date |-> "2024-01-15", amount |-> "500.00", description |-> "INV"],
      [transaction_date |-> "15/01/2024", amount |-> "499.50", description |-> "INV"],
      [transaction_date |-> "2024-01-15", amount |-> "", description |-> "INV"] }

MaxRows == 2

CsvFiles == UNION { [1..n -> CsvRows] : n \in 1..MaxRows }

\* how the bytes of an uploaded file are encoded: valid UTF-8, or Latin-1
\* bytes that are not valid UTF-8
Encodings == {"utf-8", "latin-1"}

\* csv.DictReader over csv_file.read().decode("utf-8"), or when that raises
\* UnicodeDecodeError over csv_file.read().decode("latin-1"): the rows the
\* reader yields for a file of these data rows.  The first read() has left the
\* file at its end, so the second read() returns b"" and the reader no row.
DecodedRows(encoding, rows) == IF encoding = "utf-8" THEN rows ELSE <<>>

\* uuid4() for the batch: a number no batch has used
FreshBatch ==
    1 + Cardinality({e \in 1..Len(audit) : audit[e].action = "IMPORT"})

\* the import of a file into the current state; the rows it stores get the
\* least free ids
ImportFile(org, acct, rows, user) ==
    ReconciliationService_import_csv(DB, org, acct, rows, user, FreshBatch,
        FreshIds(bank_transaction, 1..(MaxTxns + MaxRows), Len(rows)))

ImportCsv ==
    \E org \in Orgs, acct \in AccountIds, rows \in CsvFiles, user \in Actors,
       encoding \in Encodings :
        /\ CanAudit
        /\ DOMAIN ImportFile(org, acct, DecodedRows(encoding, rows), user).db.txns
              \subseteq TxnIds
        /\ Commit(ImportFile(org, acct, DecodedRows(encoding, rows), user), "import", org)
        /\ UNCHANGED <<tenantVars, calls, moneyVars>>

GetTransaction ==
    \E org \in Orgs, id \in TxnIds :
        /\ Commit(ReconciliationService_get_transaction(DB, org, id), "get_transaction", org)
        /\ UNCHANGED <<tenantVars, calls, moneyVars>>

ListTransactions ==
    \E org \in Orgs, acct \in {0} \cup AccountIds, rec \in OptBool :
        /\ Commit(ReconciliationService_list_transactions(DB, org, acct, rec),
                 "list_transactions", org)
        /\ UNCHANGED <<tenantVars, calls, moneyVars>>

Times == {1}

Reconcile ==
    \E org \in Orgs, tx \in TxnIds, p \in PaymentIds, user \in Actors, now \in Times :
        /\ CanAudit
        /\ Commit(ReconciliationService_reconcile(DB, org, tx, p, user, now),
                  "reconcile", org)
        /\ UNCHANGED <<tenantVars, calls, moneyVars>>

Unreconcile ==
    \E org \in Orgs, tx \in TxnIds, user \in Actors :
        /\ CanAudit
        /\ Commit(ReconciliationService_unreconcile(DB, org, tx, user), "unreconcile", org)
        /\ UNCHANGED <<tenantVars, calls, moneyVars>>

Tolerances == {DefaultTolerance, Dollars(150, 0)}

SuggestMatches ==
    \E org \in Orgs, tx \in TxnIds, tol \in Tolerances :
        /\ Commit(ReconciliationService_suggest_matches(DB, org, tx, tol),
                 "suggest_matches", org)
        /\ UNCHANGED <<tenantVars, calls, moneyVars>>

DocumentIds == 1..4

\* allocated_amount of an entry of a request, after money()
Amounts == {0, Dollars(245, 0), Dollars(255, 0), Dollars(545, 0)}

Entries == [document_id : DocumentIds, allocated_amount : Amounts]

Batches == UNION { [1..n -> Entries] : n \in 1..MaxBatch }

\* PaymentService.allocate called as ReceivePaymentView, MakePaymentView and
\* the tests call it
Allocate ==
    \E org \in Orgs, p \in PaymentIds, batch \in Batches, user \in Actors :
        /\ CanAudit
        /\ Len(batch) <= Cardinality(AllocationIds \ DOMAIN payment_allocation)
        /\ Commit(PaymentService_allocate(DB, org, p, batch, user,
                      FreshIds(payment_allocation, AllocationIds, Len(batch))),
                  "allocate", org)
        /\ UNCHANGED <<tenantVars, calls, moneyVars>>

\* POST payments/<payment_id>/allocate/
PaymentAllocateView ==
    \E org \in Orgs, p \in PaymentIds, batch \in Batches \cup {<<>>}, user \in Actors :
        /\ CanAudit
        /\ Len(batch) <= Cardinality(AllocationIds \ DOMAIN payment_allocation)
        /\ Commit(PaymentAllocateView_post(DB, org, p, batch, user,
                      FreshIds(payment_allocation, AllocationIds, Len(batch))),
                  "allocate_view", org)
        /\ UNCHANGED <<tenantVars, calls, moneyVars>>

Unallocate ==
    \E org \in Orgs, id \in AllocationIds, user \in Actors :
        /\ CanAudit
        /\ Commit(PaymentService_unallocate(DB, org, id, user), "unallocate", org)
        /\ UNCHANGED <<tenantVars, calls, moneyVars>>

NextAlloc == Allocate \/ PaymentAllocateView \/ Unallocate

\* Two allocate requests served at the same time, each in its own transaction
\* (READ COMMITTED, no row is locked): a request makes its checks on what is
\* committed when it reads, and writes later.
Requests == {1, 2}

Idle == [pc |-> "idle", org |-> None, payment_id |-> 0, allocations |-> <<>>,
         result |-> None]

\* the rows the requests that passed their checks have still to write
Pending == {r \in Requests : calls[r].pc = "checked"}

RaceBatches == [1..1 -> Entries]

AllocateCheck(r) ==
    \E org \in Orgs, p \in PaymentIds, batch \in RaceBatches :
        /\ calls[r].pc = "idle"
        /\ Len(audit) + Cardinality(Pending) < MaxAudit
        /\ Len(batch) + Cardinality(Pending)
              <= Cardinality(AllocationIds \ DOMAIN payment_allocation)
        /\ LET checked == PaymentService_check(DB, org, p, batch)
           IN  calls' = [calls EXCEPT ![r] =
                           [pc |-> IF checked = "ok" THEN "checked" ELSE "done",
                            org |-> org, payment_id |-> p, allocations |-> batch,
                            result |-> checked]]
        /\ UNCHANGED <<tenantVars, moneyVars, bank_account, bank_transaction, payment, document,
                       payment_allocation, audit, last>>

AllocateWrite(r) ==
    \E user \in Actors :
        /\ calls[r].pc = "checked"
        /\ Commit(Ret(WriteBatch(DB, calls[r].org, calls[r].payment_id,
                                 calls[r].allocations, user,
                                 FreshIds(payment_allocation, AllocationIds,
                                          Len(calls[r].allocations))),
                      "ok", calls[r].payment_id),
                  "allocate", calls[r].org)
        /\ calls' = [calls EXCEPT ![r].pc = "done"]
        /\ UNCHANGED <<tenantVars, moneyVars>>

NextAllocRace == \E r \in Requests : AllocateCheck(r) \/ AllocateWrite(r)

\* Two reconcile requests served at the same time, each in its own
\* transaction.atomic() block (READ COMMITTED, the rows are read without a
\* lock): a request reads the bank transaction and the payment and makes its
\* checks on them, and saves the two objects it read later. save() writes every
\* field of the object as the request holds it.
ReconcileRead(r) ==
    \E org \in Orgs, tx \in TxnIds, p \in PaymentIds :
        /\ calls[r].pc = "idle"
        /\ Len(audit) + Cardinality(Pending) < MaxAudit
        /\ LET checked == ReconciliationService_reconcile(DB, org, tx, p, "alice", 1).result
           IN  calls' = [calls EXCEPT ![r] =
                           [pc |-> IF checked = "ok" THEN "checked" ELSE "done",
                            org |-> org, transaction_id |-> tx, payment_id |-> p,
                            transaction_obj |-> IF checked = "ok"
                                                THEN bank_transaction[tx] ELSE None,
                            payment |-> IF checked = "ok" THEN payment[p] ELSE None,
                            result |-> checked]]
        /\ UNCHANGED <<tenantVars, moneyVars, bank_account, bank_transaction, payment, document,
                       payment_allocation, audit, last>>

ReconcileWrite(r) ==
    \E user \in Actors, now \in Times :
        /\ calls[r].pc = "checked"
        /\ LET c == calls[r]
               db == [DB EXCEPT !.txns[c.transaction_id] = c.transaction_obj,
                                !.payments[c.payment_id] = c.payment]
           IN  Commit(ReconciliationService_reconcile(db, c.org, c.transaction_id,
                                                      c.payment_id, user, now),
                      "reconcile", c.org)
        /\ calls' = [calls EXCEPT ![r].pc = "done"]
        /\ UNCHANGED <<tenantVars, moneyVars>>

\* the import of a UTF-8 file of one row
ImportStatement ==
    \E org \in Orgs, acct \in AccountIds, rows \in [1..1 -> CsvRows], user \in Actors :
        /\ Len(audit) + Cardinality(Pending) < MaxAudit
        /\ DOMAIN ImportFile(org, acct, rows, user).db.txns \subseteq TxnIds
        /\ Commit(ImportFile(org, acct, rows, user), "import", org)
        /\ UNCHANGED <<tenantVars, calls, moneyVars>>

VoidReasons == {" ", "entered twice"}

\* POST payments/<payment_id>/void/
Void ==
    \E org \in Orgs, p \in PaymentIds, reason \in VoidReasons, user \in Actors :
        /\ Len(audit) + Cardinality(Pending) < MaxAudit
        /\ Commit(PaymentVoidView_post(DB, org, p, reason, user), "void", org)
        /\ UNCHANGED <<tenantVars, calls, moneyVars>>

\* payments are voided while reconcile requests are served
NextVoid ==
    \/ ImportStatement
    \/ Void
    \/ \E r \in Requests : ReconcileRead(r) \/ ReconcileWrite(r)

NextReconRace ==
    \/ ImportStatement
    \/ \E r \in Requests : ReconcileRead(r) \/ ReconcileWrite(r)

\* The values the money kernel is called with
MoneyInputs ==
    {IntInput(n) : n \in {0, 1, 2}}
    \cup {DecimalInput(5, 5), DecimalInput(15, 5), DecimalInput(-5, 5),
          DecimalInput(1, 4), DecimalInput(5, 4), DecimalInput(5, 1)}
    \cup {StrInput(text) : text \in {"0.5", "0.00025", "-0.0001", "abc"}}

MoneyOperators == {"__add__", "__sub__", "__mul__", "__truediv__"}

MoneyCall ==
    \E value \in MoneyInputs :
        /\ calc' = [op |-> "money", args |-> <<value>>, result |-> money(value)]
        /\ UNCHANGED <<tenantVars, bankVars>>

SumMoney ==
    \E a, b \in MoneyInputs :
        /\ calc' = [op |-> "sum_money", args |-> <<a, b>>, result |-> sum_money(<<a, b>>)]
        /\ UNCHANGED <<tenantVars, bankVars>>

MultiplyMoney ==
    \E a, b \in MoneyInputs :
        /\ calc' = [op |-> "multiply_money", args |-> <<a, b>>,
                    result |-> multiply_money(a, b)]
        /\ UNCHANGED <<tenantVars, bankVars>>

DivideMoney ==
    \E a, b \in MoneyInputs :
        /\ calc' = [op |-> "divide_money", args |-> <<a, b>>,
                    result |-> divide_money(a, b)]
        /\ UNCHANGED <<tenantVars, bankVars>>

MoneyOperator ==
    \E op \in MoneyOperators, a, b \in MoneyInputs :
        /\ calc' = [op |-> op, args |-> <<a, b>>, result |-> Money_operator(op, a, b)]
        /\ UNCHANGED <<tenantVars, bankVars>>

\* amount = DecimalField(max_digits=10, decimal_places=4)
PaymentAmounts ==
    {DecimalInput(100000, 2), DecimalInput(109000, 2), DecimalInput(54500, 2),
     DecimalInput(200, 2), DecimalInput(30000, 4), DecimalInput(5000, 4),
     DecimalInput(3, 4), DecimalInput(1, 4)}

\* exchange_rate = DecimalField(max_digits=12, decimal_places=6)
ExchangeRates ==
    {DecimalInput(1000000, 6), DecimalInput(1350000, 6), DecimalInput(1123456, 6),
     DecimalInput(1000050, 6), DecimalInput(500000, 6), DecimalInput(1234500, 6),
     DecimalInput(1, 6)}

\* PaymentService.create_received / create_made: base_amount of the payment
ReceivePayment ==
    \E amount \in PaymentAmounts, exchange_rate \in ExchangeRates :
        /\ calc' = [op |-> "create_received", args |-> <<amount, exchange_rate>>,
                    result |-> PaymentService_base_amount(amount, exchange_rate)]
        /\ UNCHANGED <<tenantVars, bankVars>>

\* PaymentService.allocate: base_allocated_amount of an allocation of a payment
\* with the exchange rate
AllocateBase ==
    \E allocated_amount \in PaymentAmounts, exchange_rate \in ExchangeRates :
        /\ calc' = [op |-> "allocate", args |-> <<allocated_amount, exchange_rate>>,
                    result |-> PaymentService_base_amount(allocated_amount, exchange_rate)]
        /\ UNCHANGED <<tenantVars, bankVars>>

NextFx == ReceivePayment \/ AllocateBase

NextMoney == MoneyCall \/ SumMoney \/ MultiplyMoney \/ DivideMoney \/ MoneyOperator

InitMoney == calc = [op |-> "none", args |-> <<>>, result |-> MoneyResult(None, 0)]

\* The tenants' data at the start: two active bank accounts, one a default,
\* and three payments not yet reconciled
InitBank ==
    /\ bank_account =
         (1 :> [org |-> "T1", account_number |-> "001", gl_account |-> 1,
                is_default |-> TRUE, is_active |-> TRUE])
         @@ (2 :> [org |-> "T2", account_number |-> "001", gl_account |-> 2,
                   is_default |-> TRUE, is_active |-> TRUE])
    /\ bank_transaction = <<>>
    /\ payment =
           (1 :> [org |-> "T1", bank_account |-> 1, amount |-> Dollars(500, 0),
                  contact |-> 1, is_voided |-> FALSE, is_reconciled |-> FALSE])
           @@ (2 :> [org |-> "T1", bank_account |-> 1, amount |-> Dollars(501, 0),
                     contact |-> 1, is_voided |-> FALSE, is_reconciled |-> FALSE])
           @@ (3 :> [org |-> "T2", bank_account |-> 2, amount |-> Dollars(500, 0),
                     contact |-> 2, is_voided |-> TRUE, is_reconciled |-> FALSE])
    /\ document =
         (1 :> [org |-> "T1", contact |-> 1, status |-> "APPROVED",
                total_incl |-> Dollars(545, 0), document_type |-> "SALES_INVOICE"])
         @@ (2 :> [org |-> "T1", contact |-> 1, status |-> "APPROVED",
                   total_incl |-> Dollars(255, 0), document_type |-> "SALES_INVOICE"])
         @@ (3 :> [org |-> "T1", contact |-> 2, status |-> "APPROVED",
                   total_incl |-> Dollars(255, 0), document_type |-> "SALES_INVOICE"])
         @@ (4 :> [org |-> "T2", contact |-> 2, status |-> "APPROVED",
                   total_incl |-> Dollars(255, 0), document_type |-> "SALES_INVOICE"])
    /\ payment_allocation = <<>>
    /\ audit = <<>>
    /\ last = [op |-> "none", result |-> "ok"]
    /\ calls = [r \in Requests |-> Idle]

InitTenant ==
    /\ members = {}
    /\ cache = [k \in Users \X Orgs |-> "miss"]
    /\ ctx = [org |-> None, user |-> None]
    /\ req = Response(<<"health">>, Anonymous, {}, FALSE, "200", TRUE, FALSE, 0, NoHandler)

NextTenant == Request \/ Accept \/ CacheExpire

Init == InitTenant /\ InitBank /\ InitMoney

SpecTenant == Init /\ [][NextTenant]_vars

NextAccounts ==
    \/ BankAccountCreate \/ BankAccountGet \/ BankAccountList
    \/ BankAccountUpdate \/ BankAccountDeactivate \/ BankAccountSetDefault

NextRecon ==
    \/ ImportCsv \/ GetTransaction \/ ListTransactions
    \/ Reconcile \/ Unreconcile \/ SuggestMatches

SpecAccounts == Init /\ [][NextAccounts]_vars

SpecRecon == Init /\ [][NextRecon]_vars

\* the calls that write to the ledger
NextLedger ==
    \/ BankAccountCreate \/ BankAccountUpdate
    \/ BankAccountDeactivate \/ BankAccountSetDefault
    \/ ImportCsv \/ Reconcile \/ Unreconcile

SpecLedger == Init /\ [][NextLedger]_vars

SpecAlloc == Init /\ [][NextAlloc]_vars

SpecAllocRace == Init /\ [][NextAllocRace]_vars

SpecReconRace == Init /\ [][NextReconRace]_vars

SpecVoid == Init /\ [][NextVoid]_vars

SpecMoney == Init /\ [][NextMoney]_vars

SpecFx == Init /\ [][NextFx]_vars

\* PaymentService.allocate with one entry
AllocateEntry ==
    \E org \in Orgs, p \in PaymentIds, batch \in RaceBatches, user \in Actors :
        /\ CanAudit
        /\ AllocationIds \ DOMAIN payment_allocation /= {}
        /\ Commit(PaymentService_allocate(DB, org, p, batch, user,
                      FreshIds(payment_allocation, AllocationIds, 1)),
                  "allocate", org)
        /\ UNCHANGED <<tenantVars, calls, moneyVars>>

\* every call that writes an audit record
NextAudit ==
    \/ BankAccountCreate \/ BankAccountUpdate
    \/ BankAccountDeactivate \/ BankAccountSetDefault
    \/ ImportStatement \/ Reconcile \/ Unreconcile
    \/ AllocateEntry \/ Unallocate

SpecAudit == Init /\ [][NextAudit]_vars

\* the payments the model lets exist
MaxPayments == 5

\* the bodies of the receive-payment and make-payment requests
PaymentBodies ==
    [contact_id : DOMAIN Contacts, bank_account_id : AccountIds,
     amount : {Dollars(255, 0), Dollars(545, 0)},
     allocations : {<<>>} \cup RaceBatches]

\* POST payments/receive/
ReceivePaymentView ==
    \E org \in Orgs, data \in PaymentBodies, user \in Actors :
        /\ Len(audit) + 1 < MaxAudit
        /\ Cardinality(DOMAIN payment) < MaxPayments
        /\ AllocationIds \ DOMAIN payment_allocation /= {}
        /\ Commit(ReceivePaymentView_post(DB, org, data, user,
                      FreshIds(payment, 1..MaxPayments, 1)[1],
                      FreshIds(payment_allocation, AllocationIds, 1)),
                  "receive", org)
        /\ UNCHANGED <<tenantVars, calls, moneyVars>>

\* POST payments/make/
MakePaymentView ==
    \E org \in Orgs, data \in PaymentBodies, user \in Actors :
        /\ Len(audit) + 1 < MaxAudit
        /\ Cardinality(DOMAIN payment) < MaxPayments
        /\ AllocationIds \ DOMAIN payment_allocation /= {}
        /\ Commit(MakePaymentView_post(DB, org, data, user,
                      FreshIds(payment, 1..MaxPayments, 1)[1],
                      FreshIds(payment_allocation, AllocationIds, 1)),
                  "make", org)
        /\ UNCHANGED <<tenantVars, calls, moneyVars>>

NextPayments == ReceivePaymentView \/ MakePaymentView

SpecPayments == Init /\ [][NextPayments]_vars

\* the documents the model lets exist
MaxDocuments == 6

\* the document types and the target statuses of the requests
RequestedTypes == {"INVOICE", "QUOTE", "RECEIPT"}

\* the documents the requests name: a stored invoice and the created ones
RequestedDocuments == {1} \cup (5..MaxDocuments)

RequestedStatuses ==
    {"DRAFT", "SENT", "APPROVED", "PAID_PARTIAL", "PAID", "VOIDED", "CONVERTED"}

CreateDocument ==
    \E org \in Orgs, document_type \in RequestedTypes, contact_id \in DOMAIN Contacts :
        /\ Cardinality(DOMAIN document) < MaxDocuments
        /\ Commit(DocumentService_create_document(DB, org, document_type, contact_id,
                      FreshIds(document, 1..MaxDocuments, 1)[1]),
                  "create_document", org)
        /\ UNCHANGED <<tenantVars, calls, moneyVars>>

TransitionStatus ==
    \E org \in Orgs, id \in RequestedDocuments, new_status \in RequestedStatuses :
        /\ Commit(DocumentService_transition_status(DB, org, id, new_status),
                  "transition_status", org)
        /\ UNCHANGED <<tenantVars, calls, moneyVars>>

ConvertQuoteToInvoice ==
    \E org \in Orgs, id \in RequestedDocuments :
        /\ Cardinality(DOMAIN document) < MaxDocuments
        /\ Commit(DocumentService_convert_quote_to_invoice(DB, org, id,
                      FreshIds(document, 1..MaxDocuments, 1)[1]),
                  "convert_quote_to_invoice", org)
        /\ UNCHANGED <<tenantVars, calls, moneyVars>>

NextDocuments == CreateDocument \/ TransitionStatus \/ ConvertQuoteToInvoice

SpecDocuments == Init /\ [][NextDocuments]_vars

(***************************************************************************)
(* Claims about payment allocation                                         *)
(***************************************************************************)

\* ids for the rows of a batch tried on the current state
SpareAllocationIds(n) ==
    FreshIds(payment_allocation, 1..(MaxAllocations + MaxBatch), n)

TryAllocate(org, p, batch) ==
    PaymentService_allocate(DB, org, p, batch, "alice", SpareAllocationIds(Len(batch)))

TryAllocateView(org, p, batch) ==
    PaymentAllocateView_post(DB, org, p, batch, "alice", SpareAllocationIds(Len(batch)))

\* C1: after any sequence of allocate and unallocate calls made one at a
\* time, the allocations of every payment sum to at most its amount, and an
\* allocate whose batch total plus what the payment has already allocated
\* exceeds the amount is rejected and writes nothing.
C1_AllocationSum ==
    /\ \A p \in DOMAIN payment :
          SumOfPayment(payment_allocation, p) <= payment[p].amount
    /\ \A org \in Orgs, p \in PaymentIds, batch \in Batches :
          (/\ GetScoped(payment, org, p)
           /\ BatchTotal(batch) + SumOfPayment(payment_allocation, p) > payment[p].amount)
          => /\ TryAllocate(org, p, batch).result /= "ok"
             /\ TryAllocate(org, p, batch).db = DB
             /\ TryAllocateView(org, p, batch).result /= "ok"
             /\ TryAllocateView(org, p, batch).db = DB

\* An allocate call has just been refused as exceeding the payment, in a state
\* where a payment is allocated in part and a batch that fits the amount of
\* the payment on its own is refused because of what is already allocated
C1_Witness ==
    /\ last = [op |-> "allocate", result |-> "AllocationExceedsPayment"]
    /\ \E org \in Orgs, p \in DOMAIN payment, batch \in Batches :
          /\ SumOfPayment(payment_allocation, p) > 0
          /\ BatchTotal(batch) <= payment[p].amount
          /\ PaymentService_check(DB, org, p, batch) = "AllocationExceedsPayment"

\* the request passed its checks and wrote its rows
Committed(r) == calls[r].pc = "done" /\ calls[r].result = "ok"

\* C2: two allocate calls on the same payment that run at the same time never
\* both commit when what they allocate together exceeds the payment's amount.
C2_NoDoubleCommit ==
    \A r1, r2 \in Requests :
        (/\ r1 /= r2
         /\ Committed(r1)
         /\ Committed(r2)
         /\ calls[r1].payment_id = calls[r2].payment_id)
        => SumOfPayment(payment_allocation, calls[r1].payment_id)
              <= payment[calls[r1].payment_id].amount

\* C3: an allocate call whose batch fails a check at any position writes no
\* allocation row, changes no document and appends no audit record, through
\* the service and through the view alike; 545.00 + 255.00 against the
\* payment of 500.00 fails with AllocationExceedsPayment.
C3_AllOrNothing ==
    /\ \A org \in Orgs, p \in PaymentIds, batch \in Batches \cup {<<>>} :
          /\ TryAllocate(org, p, batch).result /= "ok"
                => TryAllocate(org, p, batch).db = DB
          /\ TryAllocateView(org, p, batch).result /= "ok"
                => TryAllocateView(org, p, batch).db = DB
    /\ LET batch == << [document_id |-> 1, allocated_amount |-> Dollars(545, 0)],
                       [document_id |-> 2, allocated_amount |-> Dollars(255, 0)] >>
       IN  (document[1].status = "APPROVED" /\ document[2].status = "APPROVED")
           => /\ TryAllocate("T1", 1, batch).result = "AllocationExceedsPayment"
              /\ TryAllocate("T1", 1, batch).db = DB

\* An allocate call has just failed in a state where a batch of two entries
\* fails at its second entry while its first entry alone would be accepted
C3_Witness ==
    /\ last.op = "allocate"
    /\ last.result /= "ok"
    /\ payment_allocation /= <<>>
    /\ \E org \in Orgs, p \in PaymentIds, batch \in Batches :
          /\ Len(batch) = 2
          /\ PaymentService_check(DB, org, p, batch) /= "ok"
          /\ PaymentService_check(DB, org, p, SubSeq(batch, 1, 1)) = "ok"

(***************************************************************************)
(* Claims about tenant isolation of the banking services                   *)
(***************************************************************************)

\* the rows of a table that belong to the tenant
Restrict(table, org) ==
    [i \in {j \in DOMAIN table : table[j].org = org} |-> table[i]]

\* the database as it would be if no other tenant had any data
RestrictTo(db, org) ==
    LET mine(e) == e.org = org
    IN  [accounts |-> Restrict(db.accounts, org), txns |-> Restrict(db.txns, org),
         payments |-> Restrict(db.payments, org), docs |-> Restrict(db.docs, org),
         allocs |-> Restrict(db.allocs, org), audit |-> SelectSeq(db.audit, mine)]

\* r is the outcome of a call of the tenant on the database, s of the same call
\* on the tenant's part of it: the same result, the same effect on the
\* tenant's rows, and no effect on any other tenant's rows
Isolated(org, r, s) ==
    /\ r.result = s.result
    /\ r.value = s.value
    /\ RestrictTo(r.db, org) = s.db
    /\ \A other \in Orgs \ {org} : RestrictTo(r.db, other) = RestrictTo(DB, other)

\* the call failed as not found and changed nothing
Refused(r) == r.result \in {"ResourceNotFound", "DoesNotExist"} /\ r.db = DB

SpareTxnIds(n) == FreshIds(bank_transaction, 1..(MaxTxns + MaxRows), n)

ForeignIds(table, org) == {i \in DOMAIN table : table[i].org /= org}

NonMemberRequest(r) ==
    /\ _is_org_scoped(r.path)
    /\ _extract_org_id(r.path) /= None
    /\ is_authenticated(r.user)
    /\ r.user \notin SuperAdmins
    /\ ~r.member

\* C5 as stated: a non-member's request is rejected with the unauthorized
\* tenant error (403), the handler does not run and nothing is bound.
C5_Original ==
    NonMemberRequest(req) =>
        /\ req.status = "403"
        /\ ~req.handler_ran
        /\ ~req.bound

\* C5 as amended: a non-member's request is rejected, with the unauthorized
\* tenant error (403) or, only when the membership cache itself raises, with
\* the generic tenant-context error (500); the handler does not run, no
\* SET LOCAL statement is executed and the step leaves the context variables
\* as they were.
C5_NonMemberRejected ==
    [][ NonMemberRequest(req') =>
            /\ req'.status \in {"403", "500"}
            /\ (req'.status = "500" => "cache" \in req'.faults)
            /\ ~req'.handler_ran
            /\ ~req'.bound
            /\ req'.bind_txn = 0
            /\ ctx' = ctx ]_vars

\* A non-member was turned away with 403 in a worker whose context a member's
\* earlier request had set
C5_Witness ==
    /\ NonMemberRequest(req)
    /\ req.status = "403"
    /\ ctx.org /= None

\* C6: the SET LOCAL statements of a request run in the same database
\* transaction as the tenant-scoped operation of that request.
C6_SameTransaction ==
    (req.bound /\ req.handler_ran) =>
        /\ req.op_txn = req.bind_txn
        /\ req.op_local = _extract_org_id(req.path)

\* C7: a request that binds no tenant itself sees no current tenant or actor,
\* whatever earlier requests of the same worker bound, and a TenantModel it
\* saves picks up no tenant.
C7_NoLeak ==
    (req.handler_ran /\ ~req.bound) =>
        /\ req.seen_org = None
        /\ req.seen_user = None
        /\ req.saved_org = None

\* C8: for an org-scoped request of an authenticated user the handler runs
\* only when the tenant was bound; in every other case access is denied.
C8_FailClosed ==
    (_is_org_scoped(req.path) /\ is_authenticated(req.user) /\ req.handler_ran)
        => req.bound

(***************************************************************************)
(* Claims about reconciliation                                             *)
(***************************************************************************)

\* C9: the is_reconciled flag of a bank transaction changes only by a
\* successful reconcile (to TRUE) or a successful unreconcile (to FALSE); a
\* reconcile or unreconcile that fails changes no bank transaction, no payment
\* and no audit record; no reconcile changes a transaction that is already
\* reconciled and no unreconcile one that is not.
C9_ReconcileStateMachine ==
    [][ /\ \A t \in DOMAIN bank_transaction :
              /\ (~bank_transaction[t].is_reconciled /\ bank_transaction'[t].is_reconciled)
                    => last' = [op |-> "reconcile", result |-> "ok"]
              /\ (bank_transaction[t].is_reconciled /\ ~bank_transaction'[t].is_reconciled)
                    => last' = [op |-> "unreconcile", result |-> "ok"]
              /\ (bank_transaction[t].is_reconciled /\ last'.op = "reconcile")
                    => bank_transaction'[t] = bank_transaction[t]
              /\ (~bank_transaction[t].is_reconciled /\ last'.op = "unreconcile")
                    => bank_transaction'[t] = bank_transaction[t]
        /\ (last'.op \in {"reconcile", "unreconcile"} /\ last'.result /= "ok")
              => UNCHANGED <<bank_transaction, payment, audit>>
        /\ \A org \in Orgs, t \in DOMAIN bank_transaction, p \in PaymentIds :
              /\ bank_transaction[t].is_reconciled
                    => /\ ReconciliationService_reconcile(DB, org, t, p, "alice", 1).result
                             \in {"AlreadyReconciled", "ResourceNotFound"}
                       /\ ReconciliationService_reconcile(DB, org, t, p, "alice", 1).db = DB
              /\ ~bank_transaction[t].is_reconciled
                    => /\ ReconciliationService_unreconcile(DB, org, t, "alice").result
                             \in {"NotReconciled", "ResourceNotFound"}
                       /\ ReconciliationService_unreconcile(DB, org, t, "alice").db = DB
      ]_vars

\* A reconcile has just been refused because its bank transaction was already
\* reconciled, while another payment of the tenant matches the transaction
C9_Witness ==
    /\ last = [op |-> "reconcile", result |-> "AlreadyReconciled"]
    /\ \E t \in DOMAIN bank_transaction, p \in DOMAIN payment :
          /\ bank_transaction[t].is_reconciled
          /\ bank_transaction[t].matched_payment /= p
          /\ payment[p].org = bank_transaction[t].org
          /\ ~payment[p].is_voided
          /\ payment[p].bank_account = bank_transaction[t].bank_account
          /\ Abs(bank_transaction[t].amount - payment[p].amount) <= DefaultTolerance

\* C10: whenever reconcile of a bank transaction with a payment succeeds,
\* unreconcile of that transaction right after gives the transaction
\* (is_reconciled, reconciled_at, matched_payment) and the payment
\* (is_reconciled) the values they had before the reconcile, whatever other
\* bank transactions are already reconciled.
C10_RoundTrip ==
    \A org \in Orgs, t \in DOMAIN bank_transaction, p \in DOMAIN payment :
        LET r == ReconciliationService_reconcile(DB, org, t, p, "alice", 1)
            u == ReconciliationService_unreconcile(r.db, org, t, "alice")
        IN  r.result = "ok"
            => /\ u.result = "ok"
               /\ u.db.txns[t] = bank_transaction[t]
               /\ u.db.payments[p] = payment[p]

\* The request bodies of a reconcile call: a payment id, with or without a
\* tolerance
ReconcileBodies ==
    [payment_id : PaymentIds] \cup [payment_id : PaymentIds, tolerance : Tolerances]

SuppliedTolerance(data) ==
    IF "tolerance" \in DOMAIN data THEN data.tolerance ELSE DefaultTolerance

\* C11: a reconcile that passes the checks before the amount check fails with
\* the amount-mismatch error exactly when |transaction.amount - payment.amount|
\* is greater than the tolerance, the tolerance being the one the caller
\* supplies or 1.00 when the caller supplies none; otherwise it succeeds.
C11_CallerTolerance ==
    \A org \in Orgs, t \in DOMAIN bank_transaction, data \in ReconcileBodies :
        LET r == BankTransactionReconcileView_post(DB, org, t, data, "alice", 1)
            diff == Abs(bank_transaction[t].amount - payment[data.payment_id].amount)
        IN  r.result \in {"ok", "AmountMismatch"}
            => (r.result = "AmountMismatch" <=> diff > SuppliedTolerance(data))

\* C12: of two reconcile calls for the same bank transaction that name
\* different payments and run at the same time, at most one succeeds: never
\* are both payments flagged reconciled on account of the one transaction.
C12_OneReconcileWins ==
    \A r1, r2 \in Requests :
        (/\ r1 /= r2
         /\ Committed(r1)
         /\ Committed(r2)
         /\ calls[r1].transaction_id = calls[r2].transaction_id)
        => ~(/\ calls[r1].payment_id /= calls[r2].payment_id
             /\ payment[calls[r1].payment_id].is_reconciled
             /\ payment[calls[r2].payment_id].is_reconciled)

\* the statement imported into the current state, and once more right after
ImportOnce(org, acct, rows) == ImportFile(org, acct, rows, "alice")

ImportAgain(org, acct, rows) ==
    LET first == ImportOnce(org, acct, rows)
    IN  ReconciliationService_import_csv(first.db, org, acct, rows, "alice",
            FreshBatch + 1,
            FreshIds(first.db.txns, 1..(MaxTxns + MaxRows + MaxRows), Len(rows)))

RowsOfPair(allocs, p, d) ==
    {i \in DOMAIN allocs : allocs[i].payment = p /\ allocs[i].document = d}

\* C14: after any sequence of allocate and unallocate calls there is at most
\* one allocation row per (payment, document) pair; allocate fails, writing
\* nothing, when the payment already has an allocation to a document of the
\* batch, and a batch that names the same document id twice is rejected as a
\* whole.
C14_OneRowPerPair ==
    /\ \A p \in PaymentIds, d \in DocumentIds :
          Cardinality(RowsOfPair(payment_allocation, p, d)) <= 1
    /\ \A org \in Orgs, p \in PaymentIds, batch \in Batches :
          (\/ DuplicateInBatch(batch)
           \/ \E i \in 1..Len(batch) :
                 RowsOfPair(payment_allocation, p, batch[i].document_id) /= {})
          => /\ TryAllocate(org, p, batch).result /= "ok"
             /\ TryAllocate(org, p, batch).db = DB
             /\ TryAllocateView(org, p, batch).result /= "ok"
             /\ TryAllocateView(org, p, batch).db = DB

\* A batch naming one document twice has just been refused while a payment
\* holds an allocation, and allocating that payment to the same document
\* again, within what the payment has left, is refused too
C14_Witness ==
    /\ last = [op |-> "allocate", result |-> "DuplicateAllocation"]
    /\ \E r \in DOMAIN payment_allocation, a \in Amounts :
          /\ a > 0
          /\ SumOfPayment(payment_allocation, payment_allocation[r].payment) + a
                <= payment[payment_allocation[r].payment].amount
          /\ TryAllocate(payment_allocation[r].org, payment_allocation[r].payment,
                         <<[document_id |-> payment_allocation[r].document,
                            allocated_amount |-> a]>>).result /= "ok"

\* the payment and the document of the tenant may be allocated to each other:
\* the payment is not voided, the document is APPROVED and of its counterparty
Allocatable(org, p, d) ==
    /\ p \in DOMAIN payment
    /\ payment[p].org = org
    /\ ~payment[p].is_voided
    /\ d \in DOMAIN document
    /\ document[d].org = org
    /\ document[d].status = "APPROVED"
    /\ document[d].contact = payment[p].contact

\* the rows the call has created are rows for allocatable pairs, and the call
\* has left the rows that were there as they were
CreatesOnlyAllocatable(r) ==
    /\ \A i \in DOMAIN r.db.allocs \ DOMAIN payment_allocation :
          Allocatable(r.db.allocs[i].org, r.db.allocs[i].payment, r.db.allocs[i].document)
    /\ \A i \in DOMAIN r.db.allocs \cap DOMAIN payment_allocation :
          r.db.allocs[i] = payment_allocation[i]

\* C15: an allocation row is created only when, in the state the call runs
\* in, the payment is not voided, the document belongs to the same tenant as
\* the payment and the row, has status APPROVED and has the counterparty of the
\* payment; a batch with an entry for which this fails is refused and writes
\* nothing; unallocate creates no row.
C15_OnlyWhenAllocatable ==
    /\ \A org \in Orgs, p \in PaymentIds, batch \in Batches :
          /\ CreatesOnlyAllocatable(TryAllocate(org, p, batch))
          /\ CreatesOnlyAllocatable(TryAllocateView(org, p, batch))
          /\ (\E k \in 1..Len(batch) : ~Allocatable(org, p, batch[k].document_id))
             => /\ TryAllocate(org, p, batch).result /= "ok"
                /\ TryAllocate(org, p, batch).db = DB
                /\ TryAllocateView(org, p, batch).result /= "ok"
                /\ TryAllocateView(org, p, batch).db = DB
    /\ \A org \in Orgs, id \in AllocationIds :
          CreatesOnlyAllocatable(PaymentService_unallocate(DB, org, id, "alice"))

\* An allocate has just been refused for a document of another counterparty
\* while an allocation row of the tenant exists
C15_Witness ==
    /\ last = [op |-> "allocate", result |-> "CounterpartyMismatch"]
    /\ payment_allocation /= <<>>

\* the statuses of a document in the order a document passes through them
StatusRank(status) ==
    CASE status = "DRAFT" -> 0
      [] status = "SENT" -> 1
      [] status = "APPROVED" -> 2
      [] status = "PARTIALLY_PAID" -> 3
      [] status = "PAID" -> 4
      [] OTHER -> 5

\* the call, when it succeeded, left every document of the batch PAID when the
\* rows allocate its total_incl and PARTIALLY_PAID when they allocate less, and
\* moved no document to an earlier status
StatusFollowsAllocation(r, batch) ==
    r.result = "ok"
    => /\ \A k \in 1..Len(batch) :
             LET d == batch[k].document_id
                 allocated == SumOfDocument(r.db.allocs, d)
             IN  /\ allocated = document[d].total_incl => r.db.docs[d].status = "PAID"
                 /\ allocated < document[d].total_incl
                       => r.db.docs[d].status = "PARTIALLY_PAID"
       /\ \A d \in DOMAIN document :
             StatusRank(r.db.docs[d].status) >= StatusRank(document[d].status)

\* a payment of 2000.00 and an APPROVED invoice of 1090.00 of its counterparty
InvoiceExample ==
    [DB EXCEPT !.payments = [DB.payments EXCEPT ![1].amount = Dollars(2000, 0)],
               !.docs = [DB.docs EXCEPT ![1].total_incl = Dollars(1090, 0),
                                        ![1].status = "APPROVED"],
               !.allocs = <<>>]

\* C16: after a successful allocate every document of the batch whose
\* cumulative allocated amount equals its total_incl is PAID and every one
\* whose cumulative allocated amount is less is PARTIALLY_PAID, and no document
\* has moved to an earlier status; allocating 1090.00 of a payment of 2000.00
\* to an invoice of 1090.00 leaves 910.00 unallocated and the invoice PAID.
C16_StatusTransition ==
    /\ \A org \in Orgs, p \in PaymentIds, batch \in Batches :
          /\ StatusFollowsAllocation(TryAllocate(org, p, batch), batch)
          /\ StatusFollowsAllocation(TryAllocateView(org, p, batch), batch)
    /\ LET r == PaymentService_allocate(InvoiceExample, "T1", 1,
                    <<[document_id |-> 1, allocated_amount |-> Dollars(1090, 0)]>>,
                    "alice", <<1>>)
       IN  /\ r.result = "ok"
           /\ r.db.docs[1].status = "PAID"
           /\ r.db.payments[1].amount - SumOfPayment(r.db.allocs, 1) = Dollars(910, 0)

\* An allocate has just succeeded and left one document PAID, allocated in
\* full, and another PARTIALLY_PAID, allocated in part
C16_Witness ==
    /\ last = [op |-> "allocate", result |-> "ok"]
    /\ \E d, e \in DOMAIN document :
          /\ document[d].status = "PAID"
          /\ SumOfDocument(payment_allocation, d) = document[d].total_incl
          /\ document[e].status = "PARTIALLY_PAID"
          /\ SumOfDocument(payment_allocation, e) > 0
          /\ SumOfDocument(payment_allocation, e) < document[e].total_incl

\* the payment of the tenant may take one more allocation of the amount to the
\* document: it is not voided, is of the counterparty of the document, has no
\* row for the document and has the amount left
MayAllocate(allocs, org, q, d, amount) ==
    /\ payment[q].org = org
    /\ ~payment[q].is_voided
    /\ payment[q].contact = document[d].contact
    /\ RowsOfPair(allocs, q, d) = {}
    /\ amount > 0
    /\ SumOfPayment(allocs, q) + amount <= payment[q].amount

\* C17: after a successful unallocate the allocation row no longer exists, the
\* allocated total of its payment is lower by exactly the amount of the row,
\* and the document is open again: an allocate that follows, of a payment of
\* the same counterparty that is not voided, to that document is accepted.
C17_UnallocateReopens ==
    \A id \in DOMAIN payment_allocation :
        LET row == payment_allocation[id]
            u == PaymentService_unallocate(DB, row.org, id, "alice")
        IN  /\ u.result = "ok"
            /\ id \notin DOMAIN u.db.allocs
            /\ SumOfPayment(u.db.allocs, row.payment)
                  = SumOfPayment(payment_allocation, row.payment) - row.allocated_amount
            /\ \A q \in PaymentIds, amount \in Amounts :
                  MayAllocate(u.db.allocs, row.org, q, row.document, amount)
                  => PaymentService_allocate(u.db, row.org, q,
                         <<[document_id |-> row.document, allocated_amount |-> amount]>>,
                         "alice", <<id>>).result = "ok"

(***************************************************************************)
(* Claims about voiding                                                    *)
(***************************************************************************)

\* every allocate and every reconcile that names the payment fails and changes
\* nothing
RefusesPayment(p) ==
    /\ \A org \in Orgs, t \in DOMAIN bank_transaction :
          /\ ReconciliationService_reconcile(DB, org, t, p, "alice", 1).result /= "ok"
          /\ ReconciliationService_reconcile(DB, org, t, p, "alice", 1).db = DB
    /\ \A org \in Orgs, d \in DocumentIds, amount \in Amounts :
          /\ TryAllocate(org, p, <<[document_id |-> d, allocated_amount |-> amount]>>).result
                /= "ok"
          /\ TryAllocate(org, p, <<[document_id |-> d, allocated_amount |-> amount]>>).db
                = DB

\* C18: void is terminal: a payment that is voided is voided in every later
\* state, and every later allocate or reconcile that names it fails and changes
\* nothing.
C18_VoidTerminal ==
    [][ \A p \in PaymentIds :
            payment[p].is_voided
            => /\ payment'[p].is_voided
               /\ RefusesPayment(p) ]_vars

(***************************************************************************)
(* Claims about the money kernel                                           *)
(***************************************************************************)

\* the exact result of the call rounded half-up to MONEY_PLACES; the operands
\* of a Money operator are the values of the two Money objects
ExactHalfUp(op, args) ==
    LET a == ToDecimal(args[1])
        b == ToDecimal(args[Len(args)])
        x == money(args[1]).value
        y == money(args[Len(args)]).value
        shift == b.exp - a.exp + 4
    IN  CASE op = "money" -> QuantizeHalfUp(a.digits, a.exp)
          [] op = "sum_money" ->
                QuantizeHalfUp(a.digits * Pow10(b.exp) + b.digits * Pow10(a.exp),
                               a.exp + b.exp)
          [] op = "multiply_money" -> QuantizeHalfUp(a.digits * b.digits, a.exp + b.exp)
          [] op = "divide_money" ->
                IF shift >= 0
                THEN ROUND_HALF_UP(Sign(b.digits) * a.digits * Pow10(shift), Abs(b.digits))
                ELSE ROUND_HALF_UP(Sign(b.digits) * a.digits, Abs(b.digits) * Pow10(-shift))
          [] op = "__add__" -> x + y
          [] op = "__sub__" -> x - y
          [] op = "__mul__" -> ROUND_HALF_UP(x * y, MONEY_SCALE)
          [] op = "__truediv__" -> ROUND_HALF_UP(Sign(y) * x * MONEY_SCALE, Abs(y))

\* C19: money(), sum_money, multiply_money, divide_money and the Money
\* operators return, for every input they accept, the exact result rounded to
\* 4 fractional digits half-up: a tie at the fifth digit goes away from zero.
C19_ExactHalfUp ==
    (calc.op /= "none" /\ calc.result.error = None)
    => calc.result.value = ExactHalfUp(calc.op, calc.args)

\* the Decimal without the zeros that end its fraction
RECURSIVE Normalize(_)
Normalize(d) ==
    IF d.exp > 0 /\ d.digits % 10 = 0
    THEN Normalize([d EXCEPT !.digits = d.digits \div 10, !.exp = d.exp - 1])
    ELSE d

\* amount * exchange_rate, neither rounded, rounded half-up to MONEY_PLACES
ExactBaseAmount(amount, exchange_rate) ==
    QuantizeHalfUp(Normalize(ToDecimal(amount)).digits
                      * Normalize(ToDecimal(exchange_rate)).digits,
                   Normalize(ToDecimal(amount)).exp
                      + Normalize(ToDecimal(exchange_rate)).exp)

\* C20: base_amount of a payment is its amount times its exchange rate, the
\* rate of up to 6 fractional digits taken as it is, rounded half-up to 4
\* fractional digits, and base_allocated_amount of an allocation is
\* allocated_amount times that rate rounded the same way; 1000.00 at 1.350000
\* gives 1350.0000.
C20_BaseAmount ==
    /\ calc.op \in {"create_received", "allocate"}
          => /\ calc.result.error = None
             /\ calc.result.value = ExactBaseAmount(calc.args[1], calc.args[2])
    /\ PaymentService_base_amount(DecimalInput(100000, 2), DecimalInput(1350000, 6)).value
          = Dollars(1350, 0)

(***************************************************************************)
(* Claims about bank accounts                                              *)
(***************************************************************************)

ActiveAccounts(accounts, org) ==
    {i \in DOMAIN accounts : accounts[i].org = org /\ accounts[i].is_active}

\* C21: no bank-account operation (create, update, deactivate, set_default)
\* takes a tenant from at least one active bank account to none; deactivate
\* of the only active account fails and changes nothing, and deactivate of one
\* of two active accounts succeeds.
C21_ActiveAccountKept ==
    [][ /\ \A org \in Orgs :
              ActiveAccounts(bank_account, org) /= {}
              => ActiveAccounts(bank_account', org) /= {}
        /\ \A org \in Orgs : \A id \in ActiveAccounts(bank_account, org) :
              LET r == BankAccountService_deactivate(DB, org, id, "alice")
              IN  IF ActiveAccounts(bank_account, org) = {id}
                  THEN r.result = "ValidationError" /\ r.db = DB
                  ELSE r.result = "ok" /\ ~r.db.accounts[id].is_active
      ]_vars

DefaultAccounts(accounts, org) ==
    {i \in DOMAIN accounts : accounts[i].org = org /\ accounts[i].is_default}

\* a successful call that makes the account id the default leaves it the
\* tenant's only default
MakesOnlyDefault(r, org, id) ==
    r.result = "ok" => DefaultAccounts(r.db.accounts, org) = {id}

\* C22: through every sequence of create, update, set_default and deactivate
\* calls run one at a time each tenant has at most one bank account with
\* is_default set, and a call that makes an account the default (set_default,
\* update with is_default true, create with is_default true) leaves that
\* account the only default of the tenant.
C22_SingleDefault ==
    /\ \A org \in Orgs : Cardinality(DefaultAccounts(bank_account, org)) <= 1
    /\ \A org \in Orgs, id \in AccountIds :
          /\ MakesOnlyDefault(BankAccountService_set_default(DB, org, id, "alice"), org, id)
          /\ \A data \in UpdateData :
                Bool(data.is_default)
                => MakesOnlyDefault(BankAccountService_update(DB, org, id, data, "alice"),
                                    org, id)
          /\ \A data \in CreateData :
                (id \notin DOMAIN bank_account /\ data.is_default)
                => MakesOnlyDefault(BankAccountService_create(DB, org, data, "alice", id),
                                    org, id)

\* Tenant T1 has just made a second account its default, and the account that
\* was the default at the start no longer is
C22_Witness ==
    /\ last.op \in {"set_default", "update", "create"}
    /\ last.result = "ok"
    /\ \E id \in DOMAIN bank_account :
          /\ id /= 1
          /\ DefaultAccounts(bank_account, "T1") = {id}
          /\ ~bank_account[1].is_default
          /\ bank_account[1].is_active

(***************************************************************************)
(* Claims about the audit log                                              *)
(***************************************************************************)

\* the result r of a call by user for the tenant org on the entity id of the
\* table: one record more, naming them, when it succeeded, the log as it was
\* when it failed
AppendsOne(r, org, user, entity_table, id) ==
    IF r.result = "ok"
    THEN /\ Len(r.db.audit) = Len(audit) + 1
         /\ SubSeq(r.db.audit, 1, Len(audit)) = audit
         /\ r.db.audit[Len(audit) + 1].org = org
         /\ r.db.audit[Len(audit) + 1].user = user
         /\ r.db.audit[Len(audit) + 1].entity_table = entity_table
         /\ r.db.audit[Len(audit) + 1].entity_id = id
    ELSE r.db.audit = audit

\* C23: every mutating operation (import, reconcile, unreconcile, allocate,
\* unallocate, bank-account create, update, deactivate, set_default) that
\* succeeds appends exactly one audit record, which carries the tenant, the
\* actor and the id of the entity, and leaves the earlier records as they
\* were; one that fails leaves the audit log as it was.
C23_OneAuditRecord ==
    \A org \in Orgs, user \in Users :
        /\ \A id \in AccountIds :
              /\ AppendsOne(BankAccountService_deactivate(DB, org, id, user),
                            org, user, "bank_account", id)
              /\ AppendsOne(BankAccountService_set_default(DB, org, id, user),
                            org, user, "bank_account", id)
              /\ \A data \in UpdateData :
                    AppendsOne(BankAccountService_update(DB, org, id, data, user),
                               org, user, "bank_account", id)
              /\ \A data \in CreateData :
                    id \notin DOMAIN bank_account
                    => AppendsOne(BankAccountService_create(DB, org, data, user, id),
                                  org, user, "bank_account", id)
              /\ \A rows \in CsvFiles :
                    AppendsOne(ImportFile(org, id, rows, user),
                               org, user, "bank_transaction", FreshBatch)
        /\ \A t \in TxnIds :
              /\ \A p \in PaymentIds :
                    AppendsOne(ReconciliationService_reconcile(DB, org, t, p, user, 1),
                               org, user, "bank_transaction", t)
              /\ AppendsOne(ReconciliationService_unreconcile(DB, org, t, user),
                            org, user, "bank_transaction", t)
        /\ \A p \in PaymentIds, batch \in RaceBatches :
              AppendsOne(PaymentService_allocate(DB, org, p, batch, user,
                             SpareAllocationIds(Len(batch))),
                         org, user, "payment", p)
        /\ \A a \in AllocationIds :
              AppendsOne(PaymentService_unallocate(DB, org, a, user), org, user, "payment",
                         IF a \in DOMAIN payment_allocation
                         THEN payment_allocation[a].payment ELSE 0)

\* The audit log holds the records of three successful calls of three kinds,
\* an import, a reconcile and an allocate among them
C23_Witness ==
    /\ Len(audit) = 3
    /\ {audit[e].action : e \in 1..Len(audit)} = {"IMPORT", "RECONCILE", "UPDATE"}
    /\ \E e \in 1..Len(audit) : audit[e].entity_table = "payment"
    /\ last.result = "ok"

(***************************************************************************)
(* Claims about the match suggestions                                      *)
(***************************************************************************)

\* twelve more payments of tenant T1 on bank account 1, five cents apart from
\* 500.00 on, the last of them voided: more candidates than the cut keeps
ManyPayments ==
    [i \in 4..15 |->
        [org |-> "T1", bank_account |-> 1, amount |-> Dollars(500, 5 * (i - 4)),
         contact |-> 1, is_voided |-> (i = 15), is_reconciled |-> FALSE]]

\* the stored state, and the stored state with the payments above added
SuggestInputs == {DB, [DB EXCEPT !.payments = ManyPayments @@ payment]}

\* the payments suggest_matches has to consider for the transaction t
Eligible(db, org, t, tolerance) ==
    {p \in DOMAIN db.payments :
        /\ db.payments[p].org = org
        /\ db.payments[p].bank_account = db.txns[t].bank_account
        /\ ~db.payments[p].is_voided
        /\ ~db.payments[p].is_reconciled
        /\ Abs(db.txns[t].amount - db.payments[p].amount) <= tolerance}

\* floor(10 x amount difference), the difference in units of 0.0001
TenTimesFloor(diff) == (10 * diff - ((10 * diff) % MONEY_SCALE)) \div MONEY_SCALE

Min(a, b) == IF a <= b THEN a ELSE b

BestMatches(db, org, t, tolerance, list) ==
    LET eligible == Eligible(db, org, t, tolerance)
        listed == {list[i].payment_id : i \in 1..Len(list)}
        diff(p) == Abs(db.txns[t].amount - db.payments[p].amount)
    IN  /\ listed \subseteq eligible
        /\ Len(list) = Min(Cardinality(eligible), 10)
        /\ Cardinality(listed) = Len(list)
        /\ \A i \in 1..Len(list) :
              list[i].score = 100 - TenTimesFloor(diff(list[i].payment_id))
        /\ \A i, j \in 1..Len(list) : i < j => list[i].score >= list[j].score
        /\ \A p \in eligible \ listed :
              \A i \in 1..Len(list) : list[i].score >= 100 - TenTimesFloor(diff(p))

\* C24: for a bank transaction of the tenant that is not reconciled,
\* suggest_matches returns the tenant's payments on the transaction's bank
\* account that are neither voided nor reconciled and whose amount is within
\* the tolerance of the transaction's, each with the score 100 - floor(10 x
\* amount difference), in descending order of score and cut to the 10 best;
\* for a reconciled transaction it returns the empty list; it never changes
\* the stored state.
C24_SuggestMatches ==
    \A db \in SuggestInputs, org \in Orgs, t \in TxnIds, tolerance \in Tolerances :
        LET r == ReconciliationService_suggest_matches(db, org, t, tolerance)
        IN  /\ r.db = db
            /\ r.result = "ok"
               => IF db.txns[t].is_reconciled
                  THEN r.value = <<>>
                  ELSE BestMatches(db, org, t, tolerance, r.value)

\* Suggestions were just asked for; one bank transaction of T1 is reconciled
\* and another is not, and for the latter one payment is suggested out of the
\* stored payments and ten, fewer than are eligible and not all of one score,
\* out of the larger set
C24_Witness ==
    /\ last = [op |-> "suggest_matches", result |-> "ok"]
    /\ \E t, u \in DOMAIN bank_transaction :
          /\ bank_transaction[u].is_reconciled
          /\ ~bank_transaction[t].is_reconciled
          /\ bank_transaction[t].org = "T1"
          /\ LET few == ReconciliationService_suggest_matches(
                            DB, "T1", t, Dollars(150, 0)).value
                 big == [DB EXCEPT !.payments = ManyPayments @@ payment]
                 many == ReconciliationService_suggest_matches(
                            big, "T1", t, Dollars(150, 0)).value
             IN  /\ Len(few) = 1
                 /\ Len(many) = MatchLimit
                 /\ Cardinality(Eligible(big, "T1", t, Dollars(150, 0))) > MatchLimit
                 /\ many[1].score > many[MatchLimit].score

(***************************************************************************)
(* Claims about the import                                                 *)
(***************************************************************************)

\* a statement of 22 rows: the first is complete, the others lack in turn the
\* date, the amount and the description
LongFile ==
    [i \in 1..22 |->
        [transaction_date |-> IF i % 3 = 2 THEN "" ELSE "2024-01-16",
         amount |-> IF i % 3 = 0 THEN "" ELSE "900.00",
         description |-> IF i > 1 /\ i % 3 = 1 THEN "" ELSE "FEE"]]

Incomplete(row) == row.transaction_date = "" \/ row.amount = "" \/ row.description = ""

\* the bank transactions a call has created
Created(r, db) == DOMAIN r.db.txns \ DOMAIN db.txns

\* C25: an import into an active bank account reports imported + skipped =
\* the number of data rows of the file, counts every row that lacks
\* transaction_date, amount or description in skipped and stores nothing for
\* it, returns at most 20 error messages, and gives every bank transaction it
\* creates the one batch id it returns.
C25_ImportCounts ==
    \A org \in Orgs, acct \in AccountIds, rows \in CsvFiles \cup {LongFile},
       encoding \in Encodings :
        LET r == ReconciliationService_import_csv(DB, org, acct,
                     DecodedRows(encoding, rows), "alice", FreshBatch,
                     FreshIds(bank_transaction, 1..(MaxTxns + MaxRows), MaxRows))
            incomplete == {i \in 1..Len(rows) : Incomplete(rows[i])}
        IN  r.result = "ok"
            => /\ r.value.imported + r.value.skipped = Len(rows)
               /\ r.value.skipped >= Cardinality(incomplete)
               /\ r.value.imported = Cardinality(Created(r, DB))
               /\ Cardinality(Created(r, DB)) <= Len(rows) - Cardinality(incomplete)
               /\ Len(r.value.errors) <= 20
               /\ \A t \in Created(r, DB) :
                     r.db.txns[t].import_batch_id = r.value.batch_id

\* in db every payment is flagged reconciled exactly when a reconciled bank
\* transaction has it as matched_payment
FlagMatchesLinks(db) ==
    \A p \in DOMAIN db.payments :
        db.payments[p].is_reconciled
        <=> \E t \in DOMAIN db.txns :
               /\ db.txns[t].is_reconciled
               /\ db.txns[t].matched_payment = p

\* C26: in every state reached by reconcile and unreconcile calls, the next
\* call included, a payment's is_reconciled flag is set exactly when at least
\* one reconciled bank transaction has the payment as its matched_payment; no
\* reconciled transaction points at a payment flagged as not reconciled.
C26_FlagMatchesLinks ==
    /\ FlagMatchesLinks(DB)
    /\ \A org \in Orgs, t \in TxnIds :
          /\ FlagMatchesLinks(ReconciliationService_unreconcile(DB, org, t, "alice").db)
          /\ \A p \in PaymentIds :
                FlagMatchesLinks(
                    ReconciliationService_reconcile(DB, org, t, p, "alice", 1).db)

\* the statement row of a debit of 500.00: money out has a negative amount
DebitRow ==
    [transaction_date |-> "2024-01-16", amount |-> "-500.00", description |-> "PAY"]

\* C27: a payment of amount A that is not voided reconciles with every bank
\* transaction of its bank account that is not reconciled and has the amount
\* -A, the debit by which the money left the account.
C27_DebitReconciles ==
    \A org \in Orgs, acct \in AccountIds :
        LET imported == ReconciliationService_import_csv(DB, org, acct, <<DebitRow>>,
                            "alice", FreshBatch,
                            FreshIds(bank_transaction, 1..(MaxTxns + MaxRows), 1))
        IN  \A t \in DOMAIN imported.db.txns, p \in DOMAIN payment :
                (/\ imported.result = "ok"
                 /\ imported.db.txns[t].org = org
                 /\ ~imported.db.txns[t].is_reconciled
                 /\ payment[p].org = org
                 /\ ~payment[p].is_voided
                 /\ payment[p].amount > 0
                 /\ payment[p].bank_account = imported.db.txns[t].bank_account
                 /\ imported.db.txns[t].amount = -payment[p].amount)
                => ReconciliationService_reconcile(imported.db, org, t, p, "alice", 1).result
                      = "ok"

\* in the table allocs no document of docs holds more than its total_incl
WithinTotals(allocs, docs) ==
    \A d \in DOMAIN docs : SumOfDocument(allocs, d) <= docs[d].total_incl

\* C28: after any sequence of allocate and unallocate calls, the next
\* allocate of one entry of up to 500.00 included, the allocations held
\* against a document sum to at most the document's total_incl.
C28_WithinDocumentTotal ==
    /\ WithinTotals(payment_allocation, document)
    /\ \A org \in Orgs, p \in PaymentIds, d \in DocumentIds,
          amount \in Amounts \cup {Dollars(500, 0)} :
          LET batch == <<[document_id |-> d, allocated_amount |-> amount]>>
          IN  /\ WithinTotals(TryAllocate(org, p, batch).db.allocs, document)
              /\ WithinTotals(TryAllocateView(org, p, batch).db.allocs, document)

(***************************************************************************)
(* Claims about the payment requests                                       *)
(***************************************************************************)

\* the request stored nothing: no payment, no allocation, no audit record and
\* no document changed
NothingRemains(r) == r.db = DB

\* C29: a receive-payment or make-payment request whose allocation step fails
\* after the payment was created leaves no payment row, no allocation row and
\* no audit record behind, and one that succeeds with allocations has stored
\* the payment together with its allocations.
C29_AllOrNothing ==
    \A org \in Orgs, data \in PaymentBodies :
        LET new_id == FreshIds(payment, 1..(MaxPayments + 1), 1)[1]
            new_ids == SpareAllocationIds(1)
            received == ReceivePaymentView_post(DB, org, data, "alice", new_id, new_ids)
            made == MakePaymentView_post(DB, org, data, "alice", new_id, new_ids)
            kept(r) ==
                IF r.result /= "ok"
                THEN NothingRemains(r)
                ELSE /\ new_id \in DOMAIN r.db.payments
                     /\ SumOfPayment(r.db.allocs, new_id) = BatchTotal(data.allocations)
        IN  kept(received) /\ kept(made)

(***************************************************************************)
(* Claims about the document status                                        *)
(***************************************************************************)

\* the states and the edges of the transition table
TableStates == {"DRAFT", "SENT", "APPROVED", "PAID_PARTIAL", "PAID", "VOIDED"}

TableEdges ==
    {<<"DRAFT", "SENT">>, <<"DRAFT", "VOIDED">>, <<"SENT", "APPROVED">>,
     <<"SENT", "VOIDED">>, <<"APPROVED", "PAID_PARTIAL">>, <<"APPROVED", "PAID">>,
     <<"APPROVED", "VOIDED">>, <<"PAID_PARTIAL", "PAID">>, <<"PAID_PARTIAL", "VOIDED">>,
     <<"PAID", "VOIDED">>}

\* C30: through create_document, transition_status and
\* convert_quote_to_invoice a document's status changes only along an edge of
\* the transition table, every status a document holds is a state of the
\* table, a call that is rejected leaves the documents unchanged, and a VOIDED
\* document stays VOIDED.
C30_StatusTable ==
    [][ /\ \A d \in DOMAIN document :
              /\ d \in DOMAIN document'
              /\ document'[d].status /= document[d].status
                    => <<document[d].status, document'[d].status>> \in TableEdges
              /\ document[d].status = "VOIDED" => document'[d].status = "VOIDED"
        /\ \A d \in DOMAIN document' : document'[d].status \in TableStates
        /\ last'.result /= "ok" => document' = document
      ]_vars

====
